---- MODULE Spec2Model ----
(***************************************************************************)
(* Timeregistrering (timereg-app-pwa): the App component's state, its      *)
(* handlers and the pure helpers they call, as a state machine.            *)
(*                                                                         *)
(* Strings are sequences of one-character strings, so that trim, split,    *)
(* padStart, slice and the string comparisons are computed character by    *)
(* character, as the code computes them.  A Date is the number of          *)
(* milliseconds since the epoch; calendar dates are derived from it with   *)
(* the civil-calendar algorithms.  React state updates are applied at the  *)
(* end of the handler that issues them; each handler runs to its first     *)
(* await in one step, and the continuation after a remote call is a step   *)
(* of its own.                                                             *)
(***************************************************************************)
EXTENDS Integers, Sequences, FiniteSets, TLC

VARIABLES
    entries,      \* useState<Entry[]>            (App.tsx:41)
    projects,     \* useState<string[]>           (App.tsx:42)
    running,      \* useState<timer | null>: <<>> is null, <<t>> a timer (App.tsx:43)
    view,         \* useState<"day"|"week"|"all"> (App.tsx:45)
    filterDate,   \* useState<string>             (App.tsx:46)
    session,      \* useState<Session | null>: the signed-in user's id, or NoSession
    now,          \* the value Date.now() returns
    inflight,     \* remote calls awaiting their response
    lastOp,       \* the handler that ran last and how it ended (its alert, its branch)
    tab,            \* useState<"registrering"|"admin">                (App.tsx:58)
    profile,        \* useState<Profile | null>: <<>> is null, <<p>> a profile (App.tsx:51)
    profileFetches, \* the selects on profiles awaiting their response (App.tsx:81-86)
    channelJoined,  \* useState(false)                                 (App.tsx:55)
    channels,       \* the realtime channels the client holds, with their status
    effectChannel,  \* the channel the last run of the realtime effect subscribed and
                    \* its cleanup removes; 0 when that run returned early
    cloud,          \* the rows of time_entries on the server
    events,         \* postgres_changes notifications on their way to the client
    held            \* <<es>> while the handlers on the page still close over the entry
                    \* list es of the last render and a later update waits for its
                    \* render; <<>> when the page shows the current list

\* the state the entry handlers neither read nor write
sideVars == <<tab, profile, profileFetches, channelJoined, channels, effectChannel,
              cloud, events, held>>

vars == <<entries, projects, running, view, filterDate, session, now, inflight, lastOp,
          sideVars>>

----------------------------------------------------------------------------
(* Bounds of the model *)

MaxEntries == 2
MaxInflight == 1

----------------------------------------------------------------------------
(* Strings *)

EmptyStr == <<>>

\* null of a nullable column: a sequence that is no string of characters
Null == << "NULL" >>

Digits == <<"0", "1", "2", "3", "4", "5", "6", "7", "8", "9">>

IsDigit(c) == \E i \in 1..10 : Digits[i] = c

DigitVal(c) == (CHOOSE i \in 1..10 : Digits[i] = c) - 1

IsSpace(c) == c = " "

RECURSIVE TrimStart(_)
TrimStart(s) ==
    IF s = <<>> THEN <<>>
    ELSE IF IsSpace(Head(s)) THEN TrimStart(Tail(s)) ELSE s

RECURSIVE TrimEnd(_)
TrimEnd(s) ==
    IF s = <<>> THEN <<>>
    ELSE IF IsSpace(s[Len(s)]) THEN TrimEnd(SubSeq(s, 1, Len(s) - 1)) ELSE s

\* String.prototype.trim
Trim(s) == TrimEnd(TrimStart(s))

\* String(n) of a non-negative integer
RECURSIVE NatToStr(_)
NatToStr(n) ==
    IF n < 10 THEN << Digits[n + 1] >>
    ELSE NatToStr(n \div 10) \o << Digits[(n % 10) + 1] >>

\* String.prototype.padStart(width, "0")
RECURSIVE PadStart(_, _)
PadStart(s, width) ==
    IF Len(s) >= width THEN s ELSE PadStart(<<"0">> \o s, width)

\* Number(s) of a string of digits; Number("") is 0
RECURSIVE Number(_)
Number(s) ==
    IF s = <<>> THEN 0
    ELSE 10 * Number(SubSeq(s, 1, Len(s) - 1)) + DigitVal(s[Len(s)])

\* String.prototype.split(sep) for a one-character separator
RECURSIVE Split(_, _)
Split(s, sep) ==
    IF \A i \in 1..Len(s) : s[i] # sep THEN << s >>
    ELSE LET k == CHOOSE i \in 1..Len(s) :
                     s[i] = sep /\ \A j \in 1..(i - 1) : s[j] # sep
         IN  << SubSeq(s, 1, k - 1) >> \o Split(SubSeq(s, k + 1, Len(s)), sep)

\* String.prototype.slice(0, n)
Slice0(s, n) == SubSeq(s, 1, IF Len(s) < n THEN Len(s) ELSE n)

\* the order of the characters the model uses (code-point order)
CharOrder == <<" ", "-", "0", "1", "2", "3", "4", "5", "6", "7", "8", "9", ":", "A", "B", "W", "n">>

CharRank(c) == CHOOSE i \in 1..Len(CharOrder) : CharOrder[i] = c

\* a < b for strings, as JavaScript compares them (and, on these characters,
\* the sign of a.localeCompare(b))
RECURSIVE StrLess(_, _)
StrLess(a, b) ==
    IF b = <<>> THEN FALSE
    ELSE IF a = <<>> THEN TRUE
    ELSE IF Head(a) = Head(b) THEN StrLess(Tail(a), Tail(b))
    ELSE CharRank(Head(a)) < CharRank(Head(b))

StrLeq(a, b) == a = b \/ StrLess(a, b)

----------------------------------------------------------------------------
(* Calendar *)

IsLeap(y) == (y % 4 = 0 /\ y % 100 # 0) \/ y % 400 = 0

DaysInMonth(y, m) ==
    IF m = 2 THEN (IF IsLeap(y) THEN 29 ELSE 28)
    ELSE IF m \in {4, 6, 9, 11} THEN 30 ELSE 31

\* days from 1970-01-01 to y-m-d (proleptic Gregorian calendar)
DaysFromCivil(y, m, d) ==
    LET yy  == IF m <= 2 THEN y - 1 ELSE y
        era == yy \div 400
        yoe == yy - era * 400
        mp  == (m + 9) % 12
        doy == (153 * mp + 2) \div 5 + d - 1
        doe == yoe * 365 + yoe \div 4 - yoe \div 100 + doy
    IN  era * 146097 + doe - 719468

\* the calendar date of a day number, as [y, m, d]
CivilFromDays(z0) ==
    LET z   == z0 + 719468
        era == z \div 146097
        doe == z - era * 146097
        yoe == (doe - doe \div 1460 + doe \div 36524 - doe \div 146096) \div 365
        doy == doe - (365 * yoe + yoe \div 4 - yoe \div 100)
        mp  == (5 * doy + 2) \div 153
        d   == doy - (153 * mp + 2) \div 5 + 1
        m   == IF mp < 10 THEN mp + 3 ELSE mp - 9
        y   == yoe + era * 400 + (IF m <= 2 THEN 1 ELSE 0)
    IN  [y |-> y, m |-> m, d |-> d]

\* Date.prototype.getDay of a day number: 0 is Sunday (1970-01-01 was a Thursday)
WeekDay(days) == (days + 4) % 7

\* "YYYY-MM-DD": Date.prototype.toISOString().slice(0, 10) of a day number
ISODate(days) ==
    LET c == CivilFromDays(days)
    IN  PadStart(NatToStr(c.y), 4) \o <<"-">> \o PadStart(NatToStr(c.m), 2)
            \o <<"-">> \o PadStart(NatToStr(c.d), 2)

\* the day number new Date("YYYY-MM-DD") denotes (midnight UTC of that date)
ParseISODate(s) ==
    LET p == Split(s, "-")
    IN  DaysFromCivil(Number(p[1]), Number(p[2]), Number(p[3]))

MsPerMinute == 60000
MsPerDay == 24 * 3600 * 1000

\* Date.prototype.getTimezoneOffset: minutes to add to local time to get UTC
\* (Europe/Oslo in winter)
TimezoneOffset == -60

\* the local wall clock of an instant, in milliseconds since the epoch
LocalMs(ts) == ts - TimezoneOffset * MsPerMinute

todayISO == ISODate(LocalMs(now) \div MsPerDay)

\* formatTime(new Date(ts)): "HH:MM" of the local wall clock
formatTime(ts) ==
    LET hh == (LocalMs(ts) \div 3600000) % 24
        mm == (LocalMs(ts) \div MsPerMinute) % 60
    IN  PadStart(NatToStr(hh), 2) \o <<":">> \o PadStart(NatToStr(mm), 2)

\* diffMinutes(start, end) of two "HH:MM" strings
diffMinutes(start, end) ==
    LET sp == Split(start, ":")
        ep == Split(end, ":")
        s  == Number(sp[1]) * 60 + Number(sp[2])
        e  == Number(ep[1]) * 60 + Number(ep[2])
    IN  e - s

\* Math.round of num/den for num >= 0, den > 0: halves round up
MathRound(num, den) == (2 * num + den) \div (2 * den)

Max(a, b) == IF a >= b THEN a ELSE b

\* Date.prototype.toISOString: "YYYY-MM-DDTHH:MM:SS.mmmZ"
toISOString(ts) ==
    LET ms == ts % MsPerDay
    IN  ISODate(ts \div MsPerDay) \o <<"T">>
            \o PadStart(NatToStr(ms \div 3600000), 2) \o <<":">>
            \o PadStart(NatToStr((ms \div MsPerMinute) % 60), 2) \o <<":">>
            \o PadStart(NatToStr((ms \div 1000) % 60), 2) \o <<".">>
            \o PadStart(NatToStr(ms % 1000), 3) \o <<"Z">>

\* new Date(s).getTime() of a "YYYY-MM-DDTHH:MM:SS.mmmZ" string
DateGetTime(s) ==
    ParseISODate(SubSeq(s, 1, 10)) * MsPerDay
        + Number(SubSeq(s, 12, 13)) * 3600000
        + Number(SubSeq(s, 15, 16)) * MsPerMinute
        + Number(SubSeq(s, 18, 19)) * 1000
        + Number(SubSeq(s, 21, 23))

----------------------------------------------------------------------------
(* Entries, rows and the pure helpers on them *)

NoSession == "none"

Users == {"u1"}

\* a || "" and a || null of an optional string
OrEmpty(s) == IF s = Null THEN EmptyStr ELSE s

OrNull(s) == IF s = EmptyStr THEN Null ELSE s

\* toDbRow(e, userId)
toDbRow(e, userId) ==
    [id         |-> e.id,
     user_id    |-> userId,
     date       |-> e.date,
     project    |-> e.project,
     activity   |-> OrNull(e.activity),
     notes      |-> OrNull(e.notes),
     start      |-> IF e.start # EmptyStr THEN e.start \o <<":", "0", "0">> ELSE Null,
     end        |-> IF e.end # EmptyStr THEN e.end \o <<":", "0", "0">> ELSE Null,
     minutes    |-> e.minutes,
     created_at |-> toISOString(e.createdAt)]

\* toDbUpdate(e): the columns of an UPDATE (no id, user_id, created_at)
toDbUpdate(e) ==
    [date     |-> e.date,
     project  |-> e.project,
     activity |-> OrNull(e.activity),
     notes    |-> OrNull(e.notes),
     start    |-> IF e.start # EmptyStr THEN e.start \o <<":", "0", "0">> ELSE Null,
     end      |-> IF e.end # EmptyStr THEN e.end \o <<":", "0", "0">> ELSE Null,
     minutes  |-> e.minutes]

\* the row => Entry mapping without the slice(0, 5) of start and end
RowToEntryKeepsSeconds(row) ==
    [id        |-> row.id,
     userId    |-> row.user_id,
     date      |-> row.date,
     project   |-> row.project,
     activity  |-> OrEmpty(row.activity),
     notes     |-> OrEmpty(row.notes),
     start     |-> OrEmpty(row.start),
     end       |-> OrEmpty(row.end),
     minutes   |-> row.minutes,
     createdAt |-> DateGetTime(row.created_at)]

\* the row => Entry mapping of loadCloudEntries
RowToEntry(row) ==
    [id        |-> row.id,
     userId    |-> row.user_id,
     date      |-> row.date,
     project   |-> row.project,
     activity  |-> OrEmpty(row.activity),
     notes     |-> OrEmpty(row.notes),
     start     |-> Slice0(OrEmpty(row.start), 5),
     end       |-> Slice0(OrEmpty(row.end), 5),
     minutes   |-> row.minutes,
     createdAt |-> DateGetTime(row.created_at)]

\* Array.prototype.map
MapSeq(s, F(_)) == [i \in 1..Len(s) |-> F(s[i])]

Includes(s, x) == \E i \in 1..Len(s) : s[i] = x

\* insertion of x into a list sorted by localeCompare, after its equals
RECURSIVE InsertSorted(_, _)
InsertSorted(s, x) ==
    IF s = <<>> THEN << x >>
    ELSE IF StrLess(x, Head(s)) THEN << x >> \o s
    ELSE << Head(s) >> \o InsertSorted(Tail(s), x)

\* Array.prototype.sort((a, b) => a.localeCompare(b)): a stable sort
RECURSIVE SortStrings(_)
SortStrings(s) ==
    IF s = <<>> THEN <<>>
    ELSE InsertSorted(SortStrings(SubSeq(s, 1, Len(s) - 1)), s[Len(s)])

\* Array.from(new Set(s)): the distinct elements in order of first occurrence
RECURSIVE Distinct(_)
Distinct(s) ==
    IF s = <<>> THEN <<>>
    ELSE LET r == Distinct(SubSeq(s, 1, Len(s) - 1))
         IN  IF Includes(r, s[Len(s)]) THEN r ELSE Append(r, s[Len(s)])

\* Array.prototype.filter
FilterSeq(s, P(_)) == SelectSeq(s, P)

----------------------------------------------------------------------------
(* Date objects for calendar arithmetic: [d |-> day number, t |-> ms of the day], UTC *)

\* new Date("YYYY-MM-DD"): midnight UTC of that date
DateFromISO(s) == [d |-> ParseISODate(s), t |-> 0]

\* the local day number and the local time of day of a Date
LocalDay(D) == D.d + ((D.t - TimezoneOffset * MsPerMinute) \div MsPerDay)

LocalTime(D) == (D.t - TimezoneOffset * MsPerMinute) % MsPerDay

\* the Date of a local day number and local time of day
FromLocal(day, time) ==
    [d |-> day + ((time + TimezoneOffset * MsPerMinute) \div MsPerDay),
     t |-> (time + TimezoneOffset * MsPerMinute) % MsPerDay]

\* Date.prototype.getDay, getDate
getDay(D) == WeekDay(LocalDay(D))

getDate(D) == CivilFromDays(LocalDay(D)).d

\* Date.prototype.setDate(n): day n of the Date's own local month; n outside the
\* month rolls over into the neighbouring months
setDate(D, n) ==
    LET c == CivilFromDays(LocalDay(D))
    IN  FromLocal(DaysFromCivil(c.y, c.m, 1) + n - 1, LocalTime(D))

\* filterEntries without the lower end of the range
filterEntriesNoStart(es, v, baseDateISO) ==
    IF v = "all" THEN es
    ELSE LET base  == DateFromISO(baseDateISO)
             day   == (getDay(base) + 6) % 7
             start == IF v = "week" THEN setDate(base, getDate(base) - day) ELSE base
             end   == IF v = "week" THEN setDate(base, getDate(start) + 6) ELSE base
             endISO == ISODate(end.d)
             InRange(e) == StrLeq(e.date, endISO)
         IN  FilterSeq(es, InRange)

\* filterEntries(entries, view, baseDateISO)
filterEntries(es, v, baseDateISO) ==
    IF v = "all" THEN es
    ELSE LET base  == DateFromISO(baseDateISO)
             day   == (getDay(base) + 6) % 7
             start == IF v = "week" THEN setDate(base, getDate(base) - day) ELSE base
             end   == IF v = "week" THEN setDate(base, getDate(start) + 6) ELSE base
             startISO == ISODate(start.d)
             endISO   == ISODate(end.d)
             InRange(e) == StrLeq(startISO, e.date) /\ StrLeq(e.date, endISO)
         IN  FilterSeq(es, InRange)

\* `entries` as the handlers of the last committed render see it: React
\* (createRoot) renders a state update made outside an event handler later, and
\* until then the closures of the previous render are the ones in use
RenderedEntries == IF held = <<>> THEN entries ELSE held[1]

\* const filtered = useMemo(() => filterEntries(entries, view, filterDate), ...)
filtered == filterEntries(RenderedEntries, view, filterDate)

----------------------------------------------------------------------------
(* Inputs of the handlers *)

\* the instants Date.now() takes: 09:00:00, 09:00:35 and 09:02:05 local time
T0 == 8 * 3600000

Instants == {T0, T0 + 35000, T0 + 125000}

\* what the user types into the Arbeidssted / Ordrenr / Notater fields
Labels ==
    { [project |-> <<" ", "A">>, activity |-> <<"7", " ">>, notes |-> <<"n">>],
      [project |-> <<"B">>,      activity |-> <<>>,         notes |-> <<>>],
      [project |-> <<" ">>,      activity |-> <<>>,         notes |-> <<>>] }

\* "HH:MM" as an <input type="time"> delivers it
HHMM(h, m) == PadStart(NatToStr(h), 2) \o <<":">> \o PadStart(NatToStr(m), 2)

\* ManualEntryCard: const [minutes, setMinutes] with
\* useEffect(() => { if (start && end) setMinutes(diffMinutes(start, end)) })
FormMinutes(start, end, typed) ==
    IF start # EmptyStr /\ end # EmptyStr THEN diffMinutes(start, end) ELSE typed

\* the { date, project, activity, notes, start, end, minutes } the form passes
\* to onAdd: minutes is what the user typed last, or what the effect derived
FormData(date, l, start, end, minutes) ==
    [date |-> date, project |-> l.project, activity |-> l.activity, notes |-> l.notes,
     start |-> start, end |-> end, minutes |-> minutes]

ManualInputs ==
    { FormData(<<>>, l, <<>>, <<>>, m) : l \in Labels, m \in {0, 45, -5} }
    \cup { FormData(<<>>, l, t[1], t[2], FormMinutes(t[1], t[2], 0)) :
             l \in Labels, t \in {<<HHMM(9, 0), HHMM(10, 30)>>, <<HHMM(10, 30), HHMM(9, 0)>>} }
    \cup { FormData(<<>>, l, HHMM(10, 30), HHMM(9, 0), 0) : l \in Labels }

----------------------------------------------------------------------------
(* The state after construction *)

Op(name, res, arg) == [op |-> name, res |-> res, arg |-> arg]

\* the rows of time_entries other devices have written, as a select can return them
CloudRows ==
    { [id |-> 101, user_id |-> "u1", date |-> ISODate(0), project |-> <<"B">>,
       activity |-> Null, notes |-> Null,
       start |-> HHMM(9, 0) \o <<":", "0", "0">>, end |-> HHMM(10, 30) \o <<":", "0", "0">>,
       minutes |-> 90, created_at |-> toISOString(T0)],
      [id |-> 102, user_id |-> "u1", date |-> ISODate(0), project |-> <<"A">>,
       activity |-> <<"7">>, notes |-> <<"n">>, start |-> Null, end |-> Null,
       minutes |-> 45, created_at |-> toISOString(T0)] }

\* the ids in use; cryptoRandomId() returns one that is not
UsedIds ==
    {entries[i].id : i \in 1..Len(entries)} \cup {running[i].id : i \in 1..Len(running)}
        \cup {inflight[i].id : i \in 1..Len(inflight)} \cup {r.id : r \in CloudRows}

\* cryptoRandomId(): a fresh id
cryptoRandomId ==
    CHOOSE n \in 1..(Cardinality(UsedIds) + 1) :
        n \notin UsedIds /\ \A m \in 1..(n - 1) : m \in UsedIds

\* the state after construction of what is not an entry, a project or a timer
InitSide ==
    /\ tab = "registrering"
    /\ profile = <<>>
    /\ profileFetches = <<>>
    /\ channelJoined = FALSE
    /\ channels = <<>>
    /\ effectChannel = 0
    /\ cloud = <<>>
    /\ events = 0
    /\ held = <<>>

Init ==
    /\ entries = <<>>
    /\ projects = <<>>
    /\ running = <<>>
    /\ view = "day"
    /\ now = T0
    /\ filterDate = ISODate(LocalMs(T0) \div MsPerDay)
    /\ session = NoSession
    /\ inflight = <<>>
    /\ lastOp = Op("init", "", <<>>)
    /\ InitSide

----------------------------------------------------------------------------
(* Handlers of App *)

\* addProject without the sort of the extended list
addProjectAppends(ps, name) ==
    LET n == Trim(name)
    IN  IF n = EmptyStr THEN ps
        ELSE IF ~Includes(ps, n) THEN Append(ps, n) ELSE ps

\* addProject(name), on the project list the handler's render saw
addProject(ps, name) ==
    LET n == Trim(name)
    IN  IF n = EmptyStr THEN ps
        ELSE IF ~Includes(ps, n) THEN SortStrings(Append(ps, n)) ELSE ps

\* supabase.from("time_entries").insert / update / delete: the call is issued
\* when a user is signed in, and answered later
Remote(op, id, payload) ==
    IF session # NoSession
    THEN Append(inflight, [op |-> op, id |-> id, payload |-> payload])
    ELSE inflight

CanIssue == session = NoSession \/ Len(inflight) < MaxInflight

\* onCreateProject(project) of the "Legg til nytt arbeidssted" button
AddProject(name) ==
    /\ projects' = addProject(projects, name)
    /\ lastOp' = Op("addProject", "", name)
    /\ UNCHANGED <<entries, running, view, filterDate, session, now, inflight, sideVars>>

\* startTimer without its `if (running) return alert(...)`
startTimerNoRunningCheck(project, activity, notes) ==
    IF Trim(project) = EmptyStr
    THEN /\ lastOp' = Op("startTimer", "alert: Skriv inn arbeidssted", project)
         /\ UNCHANGED <<entries, projects, running, view, filterDate, session, now, inflight, sideVars>>
    ELSE /\ running' = << [id |-> cryptoRandomId, project |-> Trim(project),
                           activity |-> Trim(activity), notes |-> Trim(notes),
                           startTs |-> now] >>
         /\ projects' = addProject(projects, Trim(project))
         /\ lastOp' = Op("startTimer", "started", project)
         /\ UNCHANGED <<entries, view, filterDate, session, now, inflight, sideVars>>

\* startTimer(project, activity, notes)
startTimer(project, activity, notes) ==
    IF Trim(project) = EmptyStr
    THEN /\ lastOp' = Op("startTimer", "alert: Skriv inn arbeidssted", project)
         /\ UNCHANGED <<entries, projects, running, view, filterDate, session, now, inflight, sideVars>>
    ELSE IF running # <<>>
    THEN /\ lastOp' = Op("startTimer", "alert: En timer kjorer allerede", project)
         /\ UNCHANGED <<entries, projects, running, view, filterDate, session, now, inflight, sideVars>>
    ELSE /\ running' = << [id |-> cryptoRandomId, project |-> Trim(project),
                           activity |-> Trim(activity), notes |-> Trim(notes),
                           startTs |-> now] >>
         /\ projects' = addProject(projects, Trim(project))
         /\ lastOp' = Op("startTimer", "started", project)
         /\ UNCHANGED <<entries, view, filterDate, session, now, inflight, sideVars>>

\* Math.floor in place of Math.round
ElapsedMinutesFloor(start, end) == Max(1, (end - start) \div MsPerMinute)

\* const minutes = Math.max(1, Math.round((end - start) / 60000))
ElapsedMinutes(start, end) == Max(1, MathRound(end - start, MsPerMinute))

\* stopTimer that replaces the entry list by the new entry
stopTimerDropsEntries ==
    IF running = <<>>
    THEN /\ lastOp' = Op("stopTimer", "idle", <<>>)
         /\ UNCHANGED <<entries, projects, running, view, filterDate, session, now, inflight, sideVars>>
    ELSE /\ Len(entries) < MaxEntries
         /\ CanIssue
         /\ LET entry == [id        |-> cryptoRandomId,
                          date      |-> todayISO,
                          project   |-> running[1].project,
                          activity  |-> running[1].activity,
                          notes     |-> running[1].notes,
                          start     |-> formatTime(running[1].startTs),
                          end       |-> formatTime(now),
                          minutes   |-> ElapsedMinutes(running[1].startTs, now),
                          createdAt |-> now,
                          userId    |-> session]
            IN  /\ entries' = << entry >>
                /\ running' = <<>>
                /\ inflight' = Remote("insert", entry.id, toDbRow(entry, session))
                /\ lastOp' = Op("stopTimer", "stopped", running[1])
         /\ UNCHANGED <<projects, view, filterDate, session, now, sideVars>>

\* stopTimer()
stopTimer ==
    IF running = <<>>
    THEN /\ lastOp' = Op("stopTimer", "idle", <<>>)
         /\ UNCHANGED <<entries, projects, running, view, filterDate, session, now, inflight, sideVars>>
    ELSE /\ Len(entries) < MaxEntries
         /\ CanIssue
         /\ LET start == running[1].startTs
                end   == now
                entry == [id        |-> cryptoRandomId,
                          date      |-> todayISO,
                          project   |-> running[1].project,
                          activity  |-> running[1].activity,
                          notes     |-> running[1].notes,
                          start     |-> formatTime(start),
                          end       |-> formatTime(end),
                          minutes   |-> ElapsedMinutes(start, end),
                          createdAt |-> now,
                          userId    |-> session]
            IN  /\ entries' = << entry >> \o entries
                /\ running' = <<>>
                /\ inflight' = Remote("insert", entry.id, toDbRow(entry, session))
                /\ lastOp' = Op("stopTimer", "stopped", running[1])
         /\ UNCHANGED <<projects, view, filterDate, session, now, sideVars>>

\* addManualEntry without its `if (!project) return alert(...)`
addManualEntryNoProjectCheck(data) ==
    LET id      == cryptoRandomId
        project == Trim(data.project)
        start   == Trim(data.start)
        end     == Trim(data.end)
        derive  == data.minutes = 0 /\ start # EmptyStr /\ end # EmptyStr
        minutes == IF derive THEN diffMinutes(start, end) ELSE data.minutes
        entry   == [id        |-> id,
                    date      |-> IF data.date # EmptyStr THEN data.date ELSE todayISO,
                    project   |-> project,
                    activity  |-> Trim(data.activity),
                    notes     |-> Trim(data.notes),
                    start     |-> start,
                    end       |-> end,
                    minutes   |-> minutes,
                    createdAt |-> now,
                    userId    |-> session]
    IN  IF derive /\ minutes <= 0
        THEN /\ lastOp' = Op("addManualEntry", "alert: Sluttid ma vaere etter starttid", data)
             /\ UNCHANGED <<entries, projects, running, view, filterDate, session, now, inflight, sideVars>>
        ELSE IF minutes = 0
        THEN /\ lastOp' = Op("addManualEntry", "alert: Oppgi varighet eller start/slutt", data)
             /\ UNCHANGED <<entries, projects, running, view, filterDate, session, now, inflight, sideVars>>
        ELSE /\ Len(entries) < MaxEntries
             /\ CanIssue
             /\ entries' = << entry >> \o entries
             /\ projects' = addProject(projects, project)
             /\ inflight' = Remote("insert", id, toDbRow(entry, session))
             /\ lastOp' = Op("addManualEntry", "added", data)
             /\ UNCHANGED <<running, view, filterDate, session, now, sideVars>>

\* addManualEntry(data)
addManualEntry(data) ==
    LET id      == cryptoRandomId
        date    == IF data.date # EmptyStr THEN data.date ELSE todayISO
        project == Trim(data.project)
        start   == Trim(data.start)
        end     == Trim(data.end)
        derive  == data.minutes = 0 /\ start # EmptyStr /\ end # EmptyStr
        minutes == IF derive THEN diffMinutes(start, end) ELSE data.minutes
        entry   == [id        |-> id,
                    date      |-> date,
                    project   |-> project,
                    activity  |-> Trim(data.activity),
                    notes     |-> Trim(data.notes),
                    start     |-> start,
                    end       |-> end,
                    minutes   |-> minutes,
                    createdAt |-> now,
                    userId    |-> session]
    IN  IF project = EmptyStr
        THEN /\ lastOp' = Op("addManualEntry", "alert: Velg/skriv et arbeidssted", data)
             /\ UNCHANGED <<entries, projects, running, view, filterDate, session, now, inflight, sideVars>>
        ELSE IF derive /\ minutes <= 0
        THEN /\ lastOp' = Op("addManualEntry", "alert: Sluttid ma vaere etter starttid", data)
             /\ UNCHANGED <<entries, projects, running, view, filterDate, session, now, inflight, sideVars>>
        ELSE IF minutes = 0
        THEN /\ lastOp' = Op("addManualEntry", "alert: Oppgi varighet eller start/slutt", data)
             /\ UNCHANGED <<entries, projects, running, view, filterDate, session, now, inflight, sideVars>>
        ELSE /\ Len(entries) < MaxEntries
             /\ CanIssue
             /\ entries' = << entry >> \o entries
             /\ projects' = addProject(projects, project)
             /\ inflight' = Remote("insert", id, toDbRow(entry, session))
             /\ lastOp' = Op("addManualEntry", "added", data)
             /\ UNCHANGED <<running, view, filterDate, session, now, sideVars>>

\* the entry with a given id, as entries.find(e => e.id === id) finds it
HasEntry(es, id) == \E i \in 1..Len(es) : es[i].id = id

FindEntry(es, id) == es[CHOOSE i \in 1..Len(es) : es[i].id = id /\ \A j \in 1..(i - 1) : es[j].id # id]

\* { ...e, ...patch }
Merge(e, patch) == [f \in DOMAIN e |-> IF f \in DOMAIN patch THEN patch[f] ELSE e[f]]

\* deleteEntry(id)
deleteEntry(id) ==
    /\ CanIssue
    /\ LET Keep(e) == e.id # id IN entries' = FilterSeq(entries, Keep)
    /\ inflight' = Remote("delete", id, <<>>)
    /\ lastOp' = Op("deleteEntry", "", id)
    /\ UNCHANGED <<projects, running, view, filterDate, session, now, sideVars>>

\* updateEntry that moves the patched entry to the head of the list
updateEntryMovesToHead(id, patch) ==
    LET Is(e)    == e.id = id
        Other(e) == e.id # id
        Patch(e) == Merge(e, patch)
        Moved(es) == MapSeq(FilterSeq(es, Is), Patch) \o FilterSeq(es, Other)
    IN  /\ CanIssue
        /\ entries' = Moved(entries)
        /\ inflight' = IF HasEntry(RenderedEntries, id)
                       THEN Remote("update", id, toDbUpdate(Merge(FindEntry(RenderedEntries, id), patch)))
                       ELSE inflight
        /\ held' = IF held = <<>> THEN held ELSE << Moved(held[1]) >>
        /\ lastOp' = Op("updateEntry", "", <<id, patch>>)
        /\ UNCHANGED <<projects, running, view, filterDate, session, now>>
        /\ UNCHANGED <<tab, profile, profileFetches, channelJoined, channels, effectChannel, cloud, events>>

\* updateEntry(id, patch): setEntries patches the state as it is, `entries` in
\* the body is the list the render saw; the render that follows the event shows
\* the patch on the list it had
updateEntry(id, patch) ==
    LET Patch(e) == IF e.id = id THEN Merge(e, patch) ELSE e
    IN  /\ CanIssue
        /\ entries' = MapSeq(entries, Patch)
        /\ inflight' = IF HasEntry(RenderedEntries, id)
                       THEN Remote("update", id, toDbUpdate(Merge(FindEntry(RenderedEntries, id), patch)))
                       ELSE inflight
        /\ held' = IF held = <<>> THEN held ELSE << MapSeq(held[1], Patch) >>
        /\ lastOp' = Op("updateEntry", "", <<id, patch>>)
        /\ UNCHANGED <<projects, running, view, filterDate, session, now>>
        /\ UNCHANGED <<tab, profile, profileFetches, channelJoined, channels, effectChannel, cloud, events>>

\* TableEditable: the onChange handlers of a row of `filtered`
DateOnChange(e, v) == updateEntry(e.id, [date |-> v])

ProjectOnChange(e, v) == updateEntry(e.id, [project |-> v])

ActivityOnChange(e, v) == updateEntry(e.id, [activity |-> v])

NotesOnChange(e, v) == updateEntry(e.id, [notes |-> v])

\* a start onChange that keeps the minutes of the row
StartOnChangeKeepsMinutes(e, v) == updateEntry(e.id, [start |-> v, minutes |-> e.minutes])

StartOnChange(e, v) ==
    LET start   == v
        end     == e.end
        minutes == IF start # EmptyStr /\ end # EmptyStr
                   THEN diffMinutes(start, end) ELSE e.minutes
    IN  updateEntry(e.id, [start |-> start, minutes |-> minutes])

EndOnChange(e, v) ==
    LET end     == v
        start   == e.start
        minutes == IF start # EmptyStr /\ end # EmptyStr
                   THEN diffMinutes(start, end) ELSE e.minutes
    IN  updateEntry(e.id, [end |-> end, minutes |-> minutes])

MinutesOnChange(e, v) == updateEntry(e.id, [minutes |-> v])

\* clearLocal that stops the running timer the way stopTimer does, which
\* stores an entry for it, before it empties the list
clearLocalStopsTimer(confirmed) ==
    IF ~confirmed
    THEN /\ lastOp' = Op("clearLocal", "cancelled", <<Len(entries), Len(running)>>)
         /\ UNCHANGED <<entries, projects, running, view, filterDate, session, now, inflight, sideVars>>
    ELSE /\ entries' = IF running = <<>> THEN <<>>
                       ELSE << [id |-> cryptoRandomId, date |-> todayISO,
                                project |-> running[1].project,
                                activity |-> running[1].activity,
                                notes |-> running[1].notes,
                                start |-> formatTime(running[1].startTs),
                                end |-> formatTime(now),
                                minutes |-> ElapsedMinutes(running[1].startTs, now),
                                createdAt |-> now, userId |-> session] >>
         /\ running' = <<>>
         /\ lastOp' = Op("clearLocal", "cleared", <<Len(entries), Len(running)>>)
         /\ UNCHANGED <<projects, view, filterDate, session, now, inflight, sideVars>>

\* clearLocal(): confirm(...) answers `confirmed`; lastOp keeps how many entries
\* and timers the list and the timer held when it ran
clearLocal(confirmed) ==
    IF ~confirmed
    THEN /\ lastOp' = Op("clearLocal", "cancelled", <<Len(entries), Len(running)>>)
         /\ UNCHANGED <<entries, projects, running, view, filterDate, session, now, inflight, sideVars>>
    ELSE /\ entries' = <<>>
         /\ running' = <<>>
         /\ lastOp' = Op("clearLocal", "cleared", <<Len(entries), Len(running)>>)
         /\ UNCHANGED <<projects, view, filterDate, session, now, inflight, sideVars>>

\* loadCloudEntries() up to its await: the select is issued when a user is signed in
IssueSelect(s) ==
    IF s # NoSession
    THEN Append(inflight, [op |-> "select", id |-> 0, payload |-> <<>>])
    ELSE inflight

\* loadCloudEntries(), called by the realtime callback and by ImportBox.onImported
loadCloudEntries ==
    /\ Len(inflight) < MaxInflight
    /\ inflight' = IssueSelect(session)
    /\ lastOp' = Op("loadCloudEntries", IF session = NoSession THEN "no user" ELSE "issued", <<>>)
    /\ UNCHANGED <<entries, projects, running, view, filterDate, session, now, sideVars>>

\* const isAdmin = !!profile?.is_admin
isAdmin(p) == p # <<>> /\ p[1].is_admin

\* supabase.channel(...): the id of the channel it creates
FreshChannel(open) ==
    CHOOSE n \in 1..(Len(open) + 1) : \A k \in 1..Len(open) : open[k].id # n

\* the realtime effect on [session?.user?.id, channelJoined], run after every
\* render until a render leaves its dependencies as they are.  s holds
\* channelJoined, the open channels, the dependencies of the effect's last run
\* and the channel its cleanup removes.  A run whose dependencies changed calls
\* that cleanup (removeChannel(ch); setChannelJoined(false)) and then the body
\* with the render's values: it returns early when nobody is signed in or
\* channelJoined is true, and subscribes a new channel otherwise.
RECURSIVE RealtimeEffect(_, _)
RealtimeEffect(s, user) ==
    IF s.deps = <<user, s.joined>> THEN s
    ELSE LET Other(c) == c.id # s.ch
             cleaned == IF s.ch # 0 THEN SelectSeq(s.open, Other) ELSE s.open
             subscribes == user # NoSession /\ ~s.joined
             id == FreshChannel(cleaned)
         IN  RealtimeEffect(
                 [joined |-> IF s.ch # 0 THEN FALSE ELSE s.joined,
                  open   |-> IF subscribes
                             THEN Append(cleaned, [id |-> id, status |-> "joining"])
                             ELSE cleaned,
                  deps   |-> <<user, s.joined>>,
                  ch     |-> IF subscribes THEN id ELSE 0],
                 user)

\* the realtime state after the handler set channelJoined to `joined`, the
\* channels to `open` and the session to `user`, and the effect has run
Realtime(joined, open, user) ==
    RealtimeEffect([joined |-> joined, open |-> open,
                    deps |-> <<session, channelJoined>>, ch |-> effectChannel], user)

\* onAuthStateChange delivers a session: setSession(s); the effect on
\* [session?.user?.id] fetches the profile, the effect on
\* [session?.user?.id, isAdmin] calls loadCloudEntries(), the realtime effect
\* subscribes
SignIn(u) ==
    /\ session = NoSession
    /\ Len(inflight) < MaxInflight
    /\ Len(profileFetches) < MaxInflight
    /\ session' = u
    /\ inflight' = IssueSelect(u)
    /\ profileFetches' = Append(profileFetches, u)
    /\ LET rt == Realtime(channelJoined, channels, u)
       IN  /\ channelJoined' = rt.joined
           /\ channels' = rt.open
           /\ effectChannel' = rt.ch
    /\ lastOp' = Op("signIn", "", u)
    /\ UNCHANGED <<entries, projects, running, view, filterDate, now>>
    /\ UNCHANGED <<tab, profile, cloud, events, held>>

\* signOut(): onAuthStateChange delivers null; the profile effect calls
\* setProfile(null), the realtime effect's cleanup removes the channel
SignOut ==
    /\ session # NoSession
    /\ session' = NoSession
    /\ profile' = <<>>
    /\ LET rt == Realtime(channelJoined, channels, NoSession)
       IN  /\ channelJoined' = rt.joined
           /\ channels' = rt.open
           /\ effectChannel' = rt.ch
    /\ lastOp' = Op("signOut", "", <<>>)
    /\ UNCHANGED <<entries, projects, running, view, filterDate, now, inflight>>
    /\ UNCHANGED <<tab, profileFetches, cloud, events, held>>

RemoveAt(s, i) == SubSeq(s, 1, i - 1) \o SubSeq(s, i + 1, Len(s))

\* a fetch that keeps the local entries in front of the fetched ones
SelectDoneMerges(i, error, rows) ==
    /\ i \in 1..Len(inflight)
    /\ inflight[i].op = "select"
    /\ inflight' = RemoveAt(inflight, i)
    /\ IF error
       THEN /\ lastOp' = Op("selectDone", "error", <<>>)
            /\ UNCHANGED <<entries, projects>>
       ELSE LET mapped == entries \o MapSeq(rows, RowToEntry)
                Project(e) == e.project
            IN  /\ entries' = mapped
                /\ projects' = SortStrings(Distinct(MapSeq(mapped, Project)))
                /\ lastOp' = Op("selectDone", "ok", rows)
    /\ UNCHANGED <<running, view, filterDate, session, now, sideVars>>

\* the rest of loadCloudEntries(): the select answers with an error or with rows
SelectDone(i, error, rows) ==
    /\ i \in 1..Len(inflight)
    /\ inflight[i].op = "select"
    /\ inflight' = RemoveAt(inflight, i)
    /\ IF error
       THEN /\ lastOp' = Op("selectDone", "error", <<>>)
            /\ UNCHANGED <<entries, projects>>
       ELSE LET mapped == MapSeq(rows, RowToEntry)
                Project(e) == e.project
            IN  /\ entries' = mapped
                /\ projects' = SortStrings(Distinct(MapSeq(mapped, Project)))
                /\ lastOp' = Op("selectDone", "ok", rows)
    /\ UNCHANGED <<running, view, filterDate, session, now, sideVars>>

\* a write whose error takes the written entry out of the list
WriteDoneReverts(i, error) ==
    /\ i \in 1..Len(inflight)
    /\ inflight[i].op # "select"
    /\ inflight' = RemoveAt(inflight, i)
    /\ lastOp' = Op("writeDone", IF error THEN "error" ELSE "ok", inflight[i])
    /\ LET Keep(e) == e.id # inflight[i].id
       IN  entries' = IF error THEN FilterSeq(entries, Keep) ELSE entries
    /\ UNCHANGED <<projects, running, view, filterDate, session, now, sideVars>>

\* the rest of addManualEntry / stopTimer / updateEntry / deleteEntry: the
\* insert, update or delete answers; an error is logged with console.warn
WriteDone(i, error) ==
    /\ i \in 1..Len(inflight)
    /\ inflight[i].op # "select"
    /\ inflight' = RemoveAt(inflight, i)
    /\ lastOp' = Op("writeDone", IF error THEN "error" ELSE "ok", inflight[i])
    /\ UNCHANGED <<entries, projects, running, view, filterDate, session, now, sideVars>>

\* time passes
Tick ==
    /\ \E t \in Instants : t > now /\ now' = t
    /\ lastOp' = Op("tick", "", <<>>)
    /\ UNCHANGED <<entries, projects, running, view, filterDate, session, inflight, sideVars>>

----------------------------------------------------------------------------
(* Local storage *)

\* what localStorage.getItem returns: null, "", a text JSON.parse throws on, or
\* the text of a JSON value
Missing == [t |-> "missing"]

EmptyText == [t |-> "empty"]

NotJSON == [t |-> "text"]

JSONNull == [t |-> "null"]

JSONNumber(n) == [t |-> "number", n |-> n]

JSONArray(items) == [t |-> "array", items |-> items]

JSONObject(o) == [t |-> "object", obj |-> o]

\* JSON.stringify of an entry: a userId that is undefined is left out
StoreEntry(e) ==
    IF e.userId = NoSession THEN [f \in (DOMAIN e) \ {"userId"} |-> e[f]] ELSE e

\* an item of the loaded list, as the app reads it: a property that is not
\* there reads undefined
ReadEntry(o) ==
    IF "userId" \in DOMAIN o THEN o
    ELSE [f \in (DOMAIN o) \cup {"userId"} |-> IF f = "userId" THEN NoSession ELSE o[f]]

\* the persist effects: tt_entries, tt_projects and tt_running after the render
Stored ==
    [tt_entries  |-> JSONArray([i \in 1..Len(entries) |-> StoreEntry(entries[i])]),
     tt_projects |-> JSONArray(projects),
     tt_running  |-> IF running # <<>> THEN JSONObject(running[1]) ELSE Missing]

\* loadEntries()
loadEntries(raw) ==
    IF raw.t \in {"missing", "empty"} THEN <<>>
    ELSE IF raw.t = "text" THEN <<>>
    ELSE IF raw.t # "array" THEN <<>>
    ELSE raw.items

\* loadProjects()
loadProjects(raw) ==
    IF raw.t \in {"missing", "empty"} THEN <<>>
    ELSE IF raw.t = "text" THEN <<>>
    ELSE IF raw.t # "array" THEN <<>>
    ELSE raw.items

\* loadTimer that restores nothing
loadTimerNothing(raw) == <<>>

\* loadTimer()
loadTimer(raw) ==
    IF raw.t \in {"missing", "empty"} THEN <<>>
    ELSE IF raw.t = "text" THEN <<>>
    ELSE IF raw.t # "object" THEN <<>>
    ELSE IF "startTs" \notin DOMAIN raw.obj THEN <<>>
    ELSE IF raw.obj.startTs = 0 THEN <<>>
    ELSE << raw.obj >>

\* the page is loaded with a local storage that holds rawE, rawP and rawT: the
\* initial state of App
Load(rawE, rawP, rawT) ==
    /\ entries' = [i \in 1..Len(loadEntries(rawE)) |-> ReadEntry(loadEntries(rawE)[i])]
    /\ projects' = loadProjects(rawP)
    /\ running' = loadTimer(rawT)
    /\ view' = "day"
    /\ filterDate' = todayISO
    /\ session' = NoSession
    /\ inflight' = <<>>
    /\ lastOp' = Op("load", "", [tt_entries |-> rawE, tt_projects |-> rawP, tt_running |-> rawT])
    /\ tab' = "registrering"
    /\ profile' = <<>>
    /\ profileFetches' = <<>>
    /\ channelJoined' = FALSE
    /\ channels' = <<>>
    /\ effectChannel' = 0
    /\ events' = 0
    /\ held' = <<>>
    /\ UNCHANGED <<now, cloud>>

\* the page is reloaded after the persist effects have run
Reload == Load(Stored.tt_entries, Stored.tt_projects, Stored.tt_running)

----------------------------------------------------------------------------
(* ImportBox *)

AllDigits(s) == \A i \in 1..Len(s) : IsDigit(s[i])

\* the [./-] of normalizeDate's second pattern
IsDateSep(c) == c \in {".", "/", "-"}

\* normalizeDate(v): yyyy-mm-dd as it is, dd.mm.yyyy / dd/mm/yyyy / dd-mm-yyyy
\* turned into yyyy-mm-dd, anything else ""
normalizeDate(v) ==
    IF v = EmptyStr THEN EmptyStr
    ELSE LET s == Trim(v)
             shapes == { p \in {1, 2} \X {1, 2} :
                           /\ Len(s) = p[1] + p[2] + 6
                           /\ AllDigits(SubSeq(s, 1, p[1]))
                           /\ IsDateSep(s[p[1] + 1])
                           /\ AllDigits(SubSeq(s, p[1] + 2, p[1] + 1 + p[2]))
                           /\ IsDateSep(s[p[1] + p[2] + 2])
                           /\ AllDigits(SubSeq(s, p[1] + p[2] + 3, p[1] + p[2] + 6)) }
         IN  IF /\ Len(s) = 10
                /\ AllDigits(SubSeq(s, 1, 4)) /\ s[5] = "-"
                /\ AllDigits(SubSeq(s, 6, 7)) /\ s[8] = "-"
                /\ AllDigits(SubSeq(s, 9, 10))
             THEN s
             ELSE IF shapes = {} THEN EmptyStr
             ELSE LET p    == CHOOSE q \in shapes : TRUE
                      dd   == PadStart(SubSeq(s, 1, p[1]), 2)
                      mm   == PadStart(SubSeq(s, p[1] + 2, p[1] + 1 + p[2]), 2)
                      yyyy == SubSeq(s, p[1] + p[2] + 3, p[1] + p[2] + 6)
                  IN  yyyy \o <<"-">> \o mm \o <<"-">> \o dd

\* normalizeTime without the padStart of the hours
normalizeTimeNoPad(v) ==
    IF v = EmptyStr THEN EmptyStr
    ELSE LET s == Trim(v)
             shapes == { p \in {1, 2} \X {0, 1} :
                           /\ Len(s) = p[1] + p[2] + 2
                           /\ AllDigits(SubSeq(s, 1, p[1]))
                           /\ (p[2] = 1 => s[p[1] + 1] = ":")
                           /\ AllDigits(SubSeq(s, p[1] + p[2] + 1, p[1] + p[2] + 2)) }
         IN  IF shapes = {} THEN EmptyStr
             ELSE LET p == CHOOSE q \in shapes : TRUE
                  IN  SubSeq(s, 1, p[1]) \o <<":">> \o SubSeq(s, p[1] + p[2] + 1, p[1] + p[2] + 2)

\* normalizeTime(v): /^(\d{1,2}):?(\d{2})$/ turned into HH:MM, anything else ""
normalizeTime(v) ==
    IF v = EmptyStr THEN EmptyStr
    ELSE LET s == Trim(v)
             shapes == { p \in {1, 2} \X {0, 1} :
                           /\ Len(s) = p[1] + p[2] + 2
                           /\ AllDigits(SubSeq(s, 1, p[1]))
                           /\ (p[2] = 1 => s[p[1] + 1] = ":")
                           /\ AllDigits(SubSeq(s, p[1] + p[2] + 1, p[1] + p[2] + 2)) }
         IN  IF shapes = {} THEN EmptyStr
             ELSE LET p  == CHOOSE q \in shapes : TRUE
                      hh == PadStart(SubSeq(s, 1, p[1]), 2)
                      mm == PadStart(SubSeq(s, p[1] + p[2] + 1, p[1] + p[2] + 2), 2)
                  IN  hh \o <<":">> \o mm

\* toEntry(r) of handleFile, on a row with the columns Dato, Arbeidssted,
\* Ordrenr, Notater, Start, Slutt, Minutter; <<>> is its null
toEntry(r) ==
    LET date     == normalizeDate(r.Dato)
        project  == Trim(r.Arbeidssted)
        activity == Trim(r.Ordrenr)
        notes    == r.Notater
        start    == normalizeTime(r.Start)
        end      == normalizeTime(r.Slutt)
        minutes  == IF r.Minutter = 0 /\ start # EmptyStr /\ end # EmptyStr
                    THEN diffMinutes(start, end) ELSE r.Minutter
    IN  IF date = EmptyStr \/ project = EmptyStr \/ minutes = 0 THEN <<>>
        ELSE << [date |-> date, project |-> project, activity |-> activity, notes |-> notes,
                 start |-> start, end |-> end, minutes |-> minutes] >>

\* rows.map(toEntry).filter(Boolean)
RECURSIVE ImportList(_)
ImportList(rows) ==
    IF rows = <<>> THEN <<>> ELSE toEntry(Head(rows)) \o ImportList(Tail(rows))

\* the k-th id cryptoRandomId() returns to one import
RECURSIVE NthFreshId(_)
NthFreshId(k) ==
    LET prev == IF k = 1 THEN 0 ELSE NthFreshId(k - 1)
    IN  CHOOSE n \in (prev + 1)..(prev + Cardinality(UsedIds) + 1) :
            n \notin UsedIds /\ \A m \in (prev + 1)..(n - 1) : m \in UsedIds

\* chunk.map((e) => toDbRow({ id: cryptoRandomId(), createdAt: Date.now(), ...e }, userId))
ImportPayload(list, userId) ==
    [k \in 1..Len(list) |->
        toDbRow([id |-> NthFreshId(k), createdAt |-> now, date |-> list[k].date,
                 project |-> list[k].project, activity |-> list[k].activity,
                 notes |-> list[k].notes, start |-> list[k].start, end |-> list[k].end,
                 minutes |-> list[k].minutes], userId)]

\* what handleFile leaves: the info line, the rows read, the rows inserted into
\* time_entries and their count
Imported(info, rows, payload, inserted) ==
    Op("handleFile", info, [rows |-> rows, payload |-> payload, inserted |-> inserted])

\* handleFile(e) on a file of `rows` (one chunk); the insert answers with `error`
handleFile(rows, error) ==
    LET list    == ImportList(rows)
        payload == ImportPayload(list, session)
    IN  IF list = <<>>
        THEN /\ lastOp' = Imported("Fant ingen gyldige rader i filen.", rows, <<>>, 0)
             /\ UNCHANGED <<entries, projects, running, view, filterDate, session, now, inflight, sideVars>>
        ELSE IF session = NoSession
        THEN /\ lastOp' = Imported("Import feilet: Du ma vaere innlogget for a importere.",
                                   rows, <<>>, 0)
             /\ UNCHANGED <<entries, projects, running, view, filterDate, session, now, inflight, sideVars>>
        ELSE IF error
        THEN /\ lastOp' = Imported("Import feilet", rows, <<>>, 0)
             /\ UNCHANGED <<entries, projects, running, view, filterDate, session, now, inflight, sideVars>>
        ELSE /\ Len(inflight) < MaxInflight
             /\ lastOp' = Imported("Importert", rows, payload, Len(payload))
             /\ inflight' = IssueSelect(session)
             /\ UNCHANGED <<entries, projects, running, view, filterDate, session, now, sideVars>>

\* the view select and the date input of the filter bar
setView(v) ==
    /\ view' = v
    /\ lastOp' = Op("setView", "", v)
    /\ UNCHANGED <<entries, projects, running, filterDate, session, now, inflight, sideVars>>

setFilterDate(d) ==
    /\ filterDate' = d
    /\ lastOp' = Op("setFilterDate", "", d)
    /\ UNCHANGED <<entries, projects, running, view, session, now, inflight, sideVars>>

----------------------------------------------------------------------------
(* AdminPanel *)

\* Date.prototype.getFullYear
getFullYear(D) == CivilFromDays(LocalDay(D)).y

\* new Date(year, 0, 4): 4 January, local midnight
JanuaryFourth(year) == FromLocal(DaysFromCivil(year, 1, 4), 0)

\* a.getTime() - b.getTime() in minutes; the Dates here differ by whole minutes
MinutesBetween(a, b) == (a.d - b.d) * 1440 + (a.t - b.t) \div MsPerMinute

\* getISOWeek with the calendar year of the date in place of the year of its Thursday
getISOWeekOfCalendarYear(dateISO) ==
    LET d      == DateFromISO(dateISO)
        dayNr  == (getDay(d) + 6) % 7
        target == setDate(d, getDate(d) - dayNr + 3)
        jan4   == JanuaryFourth(getFullYear(d))
        firstDayNr    == (getDay(jan4) + 6) % 7
        firstThursday == setDate(jan4, getDate(jan4) - firstDayNr + 3)
    IN  [year |-> getFullYear(d),
         week |-> 1 + MathRound(MinutesBetween(target, firstThursday), 7 * 1440)]

\* getISOWeek(dateISO); Math.round((target - firstThursday) / (7 * 24 * 3600 * 1000))
\* is computed on minutes
getISOWeek(dateISO) ==
    LET d      == DateFromISO(dateISO)
        dayNr  == (getDay(d) + 6) % 7
        target == setDate(d, getDate(d) - dayNr + 3)
        jan4   == JanuaryFourth(getFullYear(target))
        firstDayNr    == (getDay(jan4) + 6) % 7
        firstThursday == setDate(jan4, getDate(jan4) - firstDayNr + 3)
    IN  [year |-> getFullYear(target),
         week |-> 1 + MathRound(MinutesBetween(target, firstThursday), 7 * 1440)]

\* `${year}-W${String(week).padStart(2, "0")}`
YearWeek(w) == NatToStr(w.year) \o <<"-", "W">> \o PadStart(NatToStr(w.week), 2)

\* the key of an entry in the Map of `grouped`: e.userId || "ukjent", and the
\* year-week; the code joins the two with "|" and splits them again
GroupKey(e) ==
    [userId   |-> IF e.userId = NoSession THEN "ukjent" ELSE e.userId,
     yearWeek |-> YearWeek(getISOWeek(e.date))]

\* the value the Map holds for a key after the loop over es
RECURSIVE GroupMinutes(_, _)
GroupMinutes(es, key) ==
    IF es = <<>> THEN 0
    ELSE GroupMinutes(SubSeq(es, 1, Len(es) - 1), key)
            + (IF GroupKey(es[Len(es)]) = key THEN es[Len(es)].minutes ELSE 0)

\* the value the Map would hold if map.set stored e.minutes alone
RECURSIVE LastMinutes(_, _)
LastMinutes(es, key) ==
    IF es = <<>> THEN 0
    ELSE IF GroupKey(es[Len(es)]) = key THEN es[Len(es)].minutes
    ELSE LastMinutes(SubSeq(es, 1, Len(es) - 1), key)

\* rows.sort((a, b) => (a.yearWeek < b.yearWeek ? 1 : a.yearWeek > b.yearWeek ? -1 : 0)):
\* a stable sort, latest week first
RECURSIVE InsertByWeek(_, _)
InsertByWeek(rows, r) ==
    IF rows = <<>> THEN << r >>
    ELSE IF StrLess(Head(rows).yearWeek, r.yearWeek) THEN << r >> \o rows
    ELSE << Head(rows) >> \o InsertByWeek(Tail(rows), r)

RECURSIVE SortByWeek(_)
SortByWeek(rows) ==
    IF rows = <<>> THEN <<>>
    ELSE InsertByWeek(SortByWeek(SubSeq(rows, 1, Len(rows) - 1)), rows[Len(rows)])

\* `grouped` without the sum: the minutes of the last entry of each key
groupedLastWins(es) ==
    LET keys == Distinct([i \in 1..Len(es) |-> GroupKey(es[i])])
    IN  SortByWeek([k \in 1..Len(keys) |->
                      [userId |-> keys[k].userId, yearWeek |-> keys[k].yearWeek,
                       minutes |-> LastMinutes(es, keys[k])]])

\* AdminPanel: grouped, the rows of the table
grouped(es) ==
    LET keys == Distinct([i \in 1..Len(es) |-> GroupKey(es[i])])
    IN  SortByWeek([k \in 1..Len(keys) |->
                      [userId |-> keys[k].userId, yearWeek |-> keys[k].yearWeek,
                       minutes |-> GroupMinutes(es, keys[k])]])

----------------------------------------------------------------------------
(* Export *)

\* String.prototype.replace(/\r?\n/g, " ")
RECURSIVE ReplaceNewlines(_)
ReplaceNewlines(s) ==
    IF s = <<>> THEN <<>>
    ELSE IF Len(s) >= 2 /\ s[1] = "\r" /\ s[2] = "\n"
    THEN <<" ">> \o ReplaceNewlines(SubSeq(s, 3, Len(s)))
    ELSE IF s[1] = "\n" THEN <<" ">> \o ReplaceNewlines(Tail(s))
    ELSE << s[1] >> \o ReplaceNewlines(Tail(s))

\* (minutes / 60).toFixed(2): the nearest hundredth (minutes / 60 never lies
\* halfway between two hundredths), with the sign in front
toFixed2(minutes) ==
    LET abs == IF minutes < 0 THEN 0 - minutes ELSE minutes
        h   == MathRound(100 * abs, 60)
    IN  (IF minutes < 0 THEN <<"-">> ELSE <<>>)
            \o NatToStr(h \div 100) \o <<".">> \o PadStart(NatToStr(h % 100), 2)

\* insertion of e into a list sorted by date, after the entries of its date
RECURSIVE InsertByDate(_, _)
InsertByDate(es, e) ==
    IF es = <<>> THEN << e >>
    ELSE IF StrLess(e.date, Head(es).date) THEN << e >> \o es
    ELSE << Head(es) >> \o InsertByDate(Tail(es), e)

\* Array.prototype.sort((a, b) => a.date.localeCompare(b.date)): a stable sort
RECURSIVE SortByDate(_)
SortByDate(es) ==
    IF es = <<>> THEN <<>>
    ELSE InsertByDate(SortByDate(SubSeq(es, 1, Len(es) - 1)), es[Len(es)])

ExportHeader == <<"Dato", "Arbeidssted", "Ordrenr", "Notater", "Start", "Slutt", "Minutter", "Timer">>

\* the row of the sheet an entry is mapped to
ExportRow(e) ==
    [Dato |-> e.date, Arbeidssted |-> e.project, Ordrenr |-> e.activity,
     Notater |-> ReplaceNewlines(e.notes), Start |-> e.start, Slutt |-> e.end,
     Minutter |-> e.minutes, Timer |-> toFixed2(e.minutes)]

\* exportXLSX with entries.sort(...) in place of entries.slice().sort(...)
exportXLSXSortsInPlace ==
    /\ entries' = SortByDate(entries)
    /\ lastOp' = Op("exportXLSX", "written",
                    [header |-> ExportHeader, rows |-> MapSeq(SortByDate(entries), ExportRow)])
    /\ UNCHANGED <<projects, running, view, filterDate, session, now, inflight, sideVars>>

\* exportXLSX(): the rows handed to XLSX.utils.aoa_to_sheet and written to the file
exportXLSX ==
    /\ lastOp' = Op("exportXLSX", "written",
                    [header |-> ExportHeader, rows |-> MapSeq(SortByDate(entries), ExportRow)])
    /\ UNCHANGED <<entries, projects, running, view, filterDate, session, now, inflight, sideVars>>

----------------------------------------------------------------------------
(* The realtime channel *)

\* the statuses channel.subscribe((status) => ...) reports
ChannelStatuses == {"SUBSCRIBED", "CHANNEL_ERROR", "TIMED_OUT"}

\* the callback of subscribe() on the channel `id`:
\* if (status === "SUBSCRIBED") setChannelJoined(true), and the effects that follow
ChannelStatus(id, status) ==
    /\ \E k \in 1..Len(channels) : channels[k].id = id /\ channels[k].status = "joining"
    /\ LET answered == [k \in 1..Len(channels) |->
                           IF channels[k].id = id /\ status = "SUBSCRIBED"
                           THEN [id |-> id, status |-> "joined"] ELSE channels[k]]
           rt == Realtime(channelJoined \/ status = "SUBSCRIBED", answered, session)
       IN  /\ channelJoined' = rt.joined
           /\ channels' = rt.open
           /\ effectChannel' = rt.ch
    /\ lastOp' = Op("channelStatus", status, id)
    /\ UNCHANGED <<entries, projects, running, view, filterDate, session, now, inflight>>
    /\ UNCHANGED <<tab, profile, profileFetches, cloud, events, held>>

----------------------------------------------------------------------------
(* The profile and the tabs *)

\* the rest of the profile effect: the select on profiles for `profileFetches[i]`
\* answers; if (!error && data) setProfile(data).  When isAdmin changes, the
\* effect on [session?.user?.id, isAdmin] calls loadCloudEntries()
ProfileDone(i, error, admin) ==
    /\ i \in 1..Len(profileFetches)
    /\ profileFetches' = RemoveAt(profileFetches, i)
    /\ LET data    == [user_id |-> profileFetches[i], is_admin |-> admin]
           next    == IF error THEN profile ELSE << data >>
           reloads == isAdmin(next) # isAdmin(profile) /\ session # NoSession
       IN  /\ profile' = next
           /\ reloads => Len(inflight) < MaxInflight
           /\ inflight' = IF reloads THEN IssueSelect(session) ELSE inflight
           /\ lastOp' = Op("profileDone", IF error THEN "error" ELSE "ok", data)
    /\ UNCHANGED <<entries, projects, running, view, filterDate, session, now>>
    /\ UNCHANGED <<tab, channelJoined, channels, effectChannel, cloud, events, held>>

\* the tab buttons: "Registrering" is always there, "Admin" when isAdmin
setTab(t) ==
    /\ t = "admin" => isAdmin(profile)
    /\ tab' = t
    /\ lastOp' = Op("setTab", "", t)
    /\ UNCHANGED <<entries, projects, running, view, filterDate, session, now, inflight>>
    /\ UNCHANGED <<profile, profileFetches, channelJoined, channels, effectChannel,
                   cloud, events, held>>

\* {tab === "registrering" ? <>...</> : <AdminPanel entries={entries} />}
AdminPanelShown == tab # "registrering"

----------------------------------------------------------------------------
(* The server: the table time_entries and its change notifications *)

\* the table after the write w (an insert, update or delete of one row)
ApplyWrite(rows, w) ==
    LET Other(r) == r.id # w.id
        Patch(r) == IF r.id = w.id
                    THEN [f \in DOMAIN r |-> IF f \in DOMAIN w.payload THEN w.payload[f] ELSE r[f]]
                    ELSE r
    IN  IF w.op = "insert" THEN Append(rows, w.payload)
        ELSE IF w.op = "update" THEN MapSeq(rows, Patch)
        ELSE SelectSeq(rows, Other)

\* the server runs the select `inflight[i]`: its answer is the table as it is now
ServeSelect(i) ==
    /\ i \in 1..Len(inflight)
    /\ inflight[i].op = "select"
    /\ inflight[i].payload = <<>>
    /\ inflight' = [inflight EXCEPT ![i].payload = << cloud >>]
    /\ lastOp' = Op("serveSelect", "", cloud)
    /\ UNCHANGED <<entries, projects, running, view, filterDate, session, now, sideVars>>

\* the server runs the write `inflight[i]` and notifies the subscribers
ServerApply(i, bound) ==
    /\ i \in 1..Len(inflight)
    /\ inflight[i].op \in {"insert", "update", "delete"}
    /\ events < bound
    /\ cloud' = ApplyWrite(cloud, inflight[i])
    /\ events' = events + 1
    /\ inflight' = [inflight EXCEPT ![i].op = "applied"]
    /\ lastOp' = Op("serverApply", inflight[i].op, inflight[i].id)
    /\ UNCHANGED <<entries, projects, running, view, filterDate, session, now>>
    /\ UNCHANGED <<tab, profile, profileFetches, channelJoined, channels, effectChannel, held>>

\* another device of the user inserts a row
OtherDeviceInsert(row, bound) ==
    /\ events < bound
    /\ \A k \in 1..Len(cloud) : cloud[k].id # row.id
    /\ cloud' = Append(cloud, row)
    /\ events' = events + 1
    /\ lastOp' = Op("otherDeviceInsert", "", row)
    /\ UNCHANGED <<entries, projects, running, view, filterDate, session, now, inflight>>
    /\ UNCHANGED <<tab, profile, profileFetches, channelJoined, channels, effectChannel, held>>

\* the callback of .on("postgres_changes", ...): loadCloudEntries()
OnPostgresChange(bound) ==
    /\ events > 0
    /\ Len(inflight) < bound
    /\ events' = events - 1
    /\ inflight' = IssueSelect(session)
    /\ lastOp' = Op("postgresChange", IF session = NoSession THEN "no user" ELSE "issued", <<>>)
    /\ UNCHANGED <<entries, projects, running, view, filterDate, session, now>>
    /\ UNCHANGED <<tab, profile, profileFetches, channelJoined, channels, effectChannel, cloud, held>>

----------------------------------------------------------------------------
(* Rendering *)

\* the rest of loadCloudEntries() when the select answers with rows: the
\* setEntries(mapped) of a promise continuation is rendered by a later task
SelectDoneBeforeRender(i, rows) ==
    /\ i \in 1..Len(inflight)
    /\ inflight[i].op = "select"
    /\ inflight' = RemoveAt(inflight, i)
    /\ LET mapped == MapSeq(rows, RowToEntry)
           Project(e) == e.project
       IN  /\ entries' = mapped
           /\ projects' = SortStrings(Distinct(MapSeq(mapped, Project)))
    /\ held' = IF held = <<>> THEN << entries >> ELSE held
    /\ lastOp' = Op("selectDone", "ok", rows)
    /\ UNCHANGED <<running, view, filterDate, session, now>>
    /\ UNCHANGED <<tab, profile, profileFetches, channelJoined, channels, effectChannel, cloud, events>>

\* React renders App with the state as it is
Render ==
    /\ held # <<>>
    /\ held' = <<>>
    /\ lastOp' = Op("render", "", <<>>)
    /\ UNCHANGED <<entries, projects, running, view, filterDate, session, now, inflight>>
    /\ UNCHANGED <<tab, profile, profileFetches, channelJoined, channels, effectChannel, cloud, events>>

----------------------------------------------------------------------------
(* The specification of the app *)

\* what a select can answer: rows of CloudRows, no id twice, ordered by date descending
RECURSIVE SeqsOver(_, _)
SeqsOver(S, n) ==
    IF n = 0 THEN { <<>> }
    ELSE LET shorter == SeqsOver(S, n - 1)
         IN  shorter \cup { Append(q, x) : q \in shorter, x \in S }

SelectResults ==
    { q \in SeqsOver(CloudRows, MaxEntries) :
        /\ \A i, j \in 1..Len(q) : i # j => q[i].id # q[j].id
        /\ \A i \in 1..(Len(q) - 1) : StrLeq(q[i + 1].date, q[i].date) }

\* the steps of the handlers, over the inputs a specification gives them
StartTimerStep(L) == \E l \in L : startTimer(l.project, l.activity, l.notes)

AddManualStep(D) == \E data \in D : addManualEntry(data)

AddProjectStep(L) == \E l \in L : AddProject(l.project)

DeleteStep == \E i \in 1..Len(filtered) : deleteEntry(filtered[i].id)

ClearStep == \E c \in BOOLEAN : clearLocal(c)

SignInStep == \E u \in Users : SignIn(u)

SelectDoneStep ==
    \E i \in 1..Len(inflight), err \in BOOLEAN, rows \in SelectResults : SelectDone(i, err, rows)

WriteDoneStep == \E i \in 1..Len(inflight), err \in BOOLEAN : WriteDone(i, err)

\* Spec: the timer and the entry list on one device, nobody signed in
Next ==
    \/ StartTimerStep(Labels)
    \/ stopTimer
    \/ Tick
    \/ AddProjectStep(Labels)
    \/ DeleteStep
    \/ ClearStep

Spec == Init /\ [][Next]_vars

----------------------------------------------------------------------------
(* SpecManual: the manual-entry form on one device *)

NextManual ==
    \/ AddManualStep(ManualInputs)
    \/ AddProjectStep(Labels)
    \/ DeleteStep
    \/ ClearStep

SpecManual == Init /\ [][NextManual]_vars

----------------------------------------------------------------------------
(* SpecEdit: inline edits of the start, end and minutes of stored entries *)

MaxStored == 1

\* entries as addManualEntry creates them and the persist effect stores them
StoredEntry(id, timed) ==
    [id        |-> id,
     date      |-> ISODate(0),
     project   |-> IF timed THEN <<"B">> ELSE <<"A">>,
     activity  |-> IF timed THEN EmptyStr ELSE <<"7">>,
     notes     |-> IF timed THEN EmptyStr ELSE <<"n">>,
     start     |-> IF timed THEN HHMM(9, 0) ELSE EmptyStr,
     end       |-> IF timed THEN HHMM(10, 30) ELSE EmptyStr,
     minutes   |-> IF timed THEN 90 ELSE 45,
     createdAt |-> T0,
     userId    |-> NoSession]

\* what loadEntries() can return: stored lists of at most MaxStored entries
StoredLists ==
    UNION { [1..n -> BOOLEAN] : n \in 0..MaxStored }

\* the state after construction, with entries in local storage
InitStored ==
    /\ \E kinds \in StoredLists :
          /\ entries = [i \in 1..Len(kinds) |-> StoredEntry(i, kinds[i])]
          /\ projects = SortStrings(Distinct([i \in 1..Len(kinds) |->
                                                IF kinds[i] THEN <<"B">> ELSE <<"A">>]))
    /\ running = <<>>
    /\ view = "day"
    /\ now = T0
    /\ filterDate = ISODate(LocalMs(T0) \div MsPerDay)
    /\ session = NoSession
    /\ inflight = <<>>
    /\ lastOp = Op("init", "", <<>>)
    /\ InitSide

TimeEdits == {EmptyStr, HHMM(9, 0), HHMM(10, 30)}

MinutesEdits == {30}

StartEditStep == \E i \in 1..Len(filtered), v \in TimeEdits : StartOnChange(filtered[i], v)

EndEditStep == \E i \in 1..Len(filtered), v \in TimeEdits : EndOnChange(filtered[i], v)

MinutesEditStep == \E i \in 1..Len(filtered), v \in MinutesEdits : MinutesOnChange(filtered[i], v)

NextEdit ==
    \/ StartEditStep
    \/ EndEditStep
    \/ MinutesEditStep
    \/ DeleteStep

SpecEdit == InitStored /\ [][NextEdit]_vars

----------------------------------------------------------------------------
(* SpecCloud: a user signs in; writes are mirrored to time_entries and the     *)
(* list is fetched from it                                                     *)

MaxCloudEntries == 1

CloudLabels == { [project |-> <<" ", "A">>, activity |-> <<"7", " ">>, notes |-> <<"n">>] }

CloudManualInputs ==
    { FormData(<<>>, [project |-> <<"B">>, activity |-> <<>>, notes |-> <<>>], <<>>, <<>>, 45) }

NextCloud ==
    \/ SignInStep
    \/ loadCloudEntries
    \/ SelectDoneStep
    \/ WriteDoneStep
    \/ session # NoSession /\ Len(entries) < MaxCloudEntries /\ AddManualStep(CloudManualInputs)
    \/ session # NoSession /\ StartTimerStep(CloudLabels)
    \/ session # NoSession /\ Len(entries) < MaxCloudEntries /\ stopTimer
    \/ session # NoSession /\ MinutesEditStep
    \/ session # NoSession /\ DeleteStep

SpecCloud == Init /\ [][NextCloud]_vars

----------------------------------------------------------------------------
(* SpecFilter: the filter bar over stored entries dated around week, month and *)
(* year boundaries                                                             *)

MaxFiltered == 2

\* the dates of the stored entries: the days before and after the weeks of the
\* reference dates, and the first and last days of those weeks
FilterEntryDates ==
    { ISODate(DaysFromCivil(2024, 2, 25)), ISODate(DaysFromCivil(2024, 2, 26)),
      ISODate(DaysFromCivil(2024, 3, 3)),  ISODate(DaysFromCivil(2024, 3, 4)),
      ISODate(DaysFromCivil(2024, 3, 10)), ISODate(DaysFromCivil(2024, 3, 11)),
      ISODate(DaysFromCivil(2024, 12, 29)), ISODate(DaysFromCivil(2024, 12, 30)),
      ISODate(DaysFromCivil(2025, 1, 5)),  ISODate(DaysFromCivil(2025, 1, 6)) }

\* the reference dates: a Friday whose Monday lies in February, a Wednesday
\* inside March, a Wednesday whose Monday lies in the year before, a Monday
FilterDates ==
    { ISODate(DaysFromCivil(2024, 3, 1)), ISODate(DaysFromCivil(2024, 3, 6)),
      ISODate(DaysFromCivil(2025, 1, 1)), ISODate(DaysFromCivil(2024, 2, 26)) }

Views == {"day", "week", "all"}

DatedEntry(id, date) ==
    [id |-> id, date |-> date, project |-> <<"A">>, activity |-> EmptyStr, notes |-> EmptyStr,
     start |-> EmptyStr, end |-> EmptyStr, minutes |-> 45, createdAt |-> T0, userId |-> NoSession]

InitFilter ==
    /\ \E dates \in SeqsOver(FilterEntryDates, MaxFiltered) :
          entries = [i \in 1..Len(dates) |-> DatedEntry(i, dates[i])]
    /\ projects = IF entries = <<>> THEN <<>> ELSE << <<"A">> >>
    /\ running = <<>>
    /\ view = "day"
    /\ now = T0
    /\ filterDate = ISODate(LocalMs(T0) \div MsPerDay)
    /\ session = NoSession
    /\ inflight = <<>>
    /\ lastOp = Op("init", "", <<>>)
    /\ InitSide

SetViewStep == \E v \in Views : setView(v)

SetFilterDateStep == \E d \in FilterDates : setFilterDate(d)

NextFilter ==
    \/ SetViewStep
    \/ SetFilterDateStep

SpecFilter == InitFilter /\ [][NextFilter]_vars

----------------------------------------------------------------------------
(* SpecImport: a signed-in admin imports files of rows *)

MaxRows == 2

\* d.m.yyyy with a separator
DMY(d, sep, m, y) == NatToStr(d) \o <<sep>> \o NatToStr(m) \o <<sep>> \o NatToStr(y)

Row(dato, arbeidssted, start, slutt, minutter) ==
    [Dato |-> dato, Arbeidssted |-> arbeidssted, Ordrenr |-> <<"7", " ">>, Notater |-> <<"n">>,
     Start |-> start, Slutt |-> slutt, Minutter |-> minutter]

\* the rows of a sheet, as sheet_to_json(ws, { defval: "" }) delivers them;
\* an empty Minutter cell is 0 after Number(r.Minutter || 0)
ImportRows ==
    { Row(DMY(5, ".", 3, 2024), <<" ", "A">>, <<"9", ":", "0", "0">>, <<"1", "0", "3", "0">>, 0),
      Row(ISODate(DaysFromCivil(2024, 3, 5)), EmptyStr, EmptyStr, EmptyStr, 45),
      Row(ISODate(DaysFromCivil(2024, 3, 5)), <<"B">>, HHMM(10, 0), HHMM(9, 0), 0),
      Row(DMY(5, "/", 3, 2024), <<"B">>, EmptyStr, EmptyStr, -30),
      Row(<<"2", "0", "2", "4">>, <<"B">>, EmptyStr, EmptyStr, 45),
      Row(ISODate(DaysFromCivil(2024, 3, 5)), <<"B">>, HHMM(9, 0), EmptyStr, 0) }

ImportFiles == SeqsOver(ImportRows, MaxRows)

ImportStep == \E rows \in ImportFiles, err \in BOOLEAN : handleFile(rows, err)

NextImport ==
    \/ SignInStep
    \/ ImportStep
    \/ SelectDoneStep

SpecImport == Init /\ [][NextImport]_vars

----------------------------------------------------------------------------
(* SpecForm: the manual-entry form, signed out and signed in *)

BlankLabel == [project |-> <<" ">>, activity |-> <<>>, notes |-> <<>>]

SiteB == [project |-> <<"B">>, activity |-> <<>>, notes |-> <<>>]

FormInputs ==
    { FormData(<<>>, BlankLabel, <<>>, <<>>, 45),
      FormData(<<>>, BlankLabel, HHMM(9, 0), HHMM(10, 30), 90),
      FormData(<<>>, SiteB, <<>>, <<>>, 0),
      FormData(<<>>, SiteB, HHMM(9, 0), <<>>, 0),
      FormData(<<>>, SiteB, <<>>, HHMM(10, 30), 0),
      FormData(<<>>, SiteB, <<>>, <<>>, 45),
      FormData(<<>>, SiteB, HHMM(9, 0), HHMM(10, 30), 90) }

\* the select of the login effect answers, with no rows in the cloud
EmptySelectDoneStep == \E i \in 1..Len(inflight), err \in BOOLEAN : SelectDone(i, err, <<>>)

NextForm ==
    \/ SignInStep
    \/ EmptySelectDoneStep
    \/ WriteDoneStep
    \/ AddManualStep(FormInputs)
    \/ DeleteStep

SpecForm == Init /\ [][NextForm]_vars

----------------------------------------------------------------------------
(* SpecFields: inline edits of the date, project, notes and end of stored      *)
(* entries                                                                     *)

MaxFieldEntries == 2

\* the state after construction, with up to MaxFieldEntries entries in local storage
InitFields ==
    /\ \E kinds \in UNION { [1..n -> BOOLEAN] : n \in 0..MaxFieldEntries } :
          /\ entries = [i \in 1..Len(kinds) |-> StoredEntry(i, kinds[i])]
          /\ projects = SortStrings(Distinct([i \in 1..Len(kinds) |->
                                                IF kinds[i] THEN <<"B">> ELSE <<"A">>]))
    /\ running = <<>>
    /\ view = "day"
    /\ now = T0
    /\ filterDate = ISODate(LocalMs(T0) \div MsPerDay)
    /\ session = NoSession
    /\ inflight = <<>>
    /\ lastOp = Op("init", "", <<>>)
    /\ InitSide

\* what the user leaves in the project field: nothing, or B
ProjectEdits == {EmptyStr, <<"B">>}

NotesEdits == {<<"n">>}

DateEditStep == \E i \in 1..Len(filtered) : DateOnChange(filtered[i], filtered[i].date)

ProjectEditStep == \E i \in 1..Len(filtered), v \in ProjectEdits : ProjectOnChange(filtered[i], v)

NotesEditStep == \E i \in 1..Len(filtered), v \in NotesEdits : NotesOnChange(filtered[i], v)

EndSameStep == \E i \in 1..Len(filtered) : EndOnChange(filtered[i], HHMM(10, 30))

NextFields ==
    \/ DateEditStep
    \/ ProjectEditStep
    \/ NotesEditStep
    \/ EndSameStep

SpecFields == InitFields /\ [][NextFields]_vars

----------------------------------------------------------------------------
(* SpecAdmin: an admin signs in and loads the entries of all employees, dated  *)
(* around year boundaries                                                      *)

MaxAdminRows == 2

AdminUsers == {"u1", "u2"}

\* Friday 2021-01-01 and the days around it, Monday 2024-12-30, Sunday
\* 2023-01-01, Thursday 2026-12-31 and a day in June
AdminDates ==
    << ISODate(DaysFromCivil(2020, 12, 31)), ISODate(DaysFromCivil(2021, 1, 1)),
       ISODate(DaysFromCivil(2021, 1, 3)),   ISODate(DaysFromCivil(2021, 1, 4)),
       ISODate(DaysFromCivil(2024, 12, 30)), ISODate(DaysFromCivil(2023, 1, 1)),
       ISODate(DaysFromCivil(2026, 12, 31)), ISODate(DaysFromCivil(2024, 6, 12)) >>

AdminRow(k, u) ==
    [id |-> 200 + 10 * k + (IF u = "u1" THEN 1 ELSE 2), user_id |-> u, date |-> AdminDates[k],
     project |-> <<"A">>, activity |-> Null, notes |-> Null, start |-> Null, end |-> Null,
     minutes |-> 30 * k, created_at |-> toISOString(T0)]

\* the rows of time_entries: two employees, one with two rows in one ISO week
AdminRows ==
    { AdminRow(1, "u1"), AdminRow(2, "u1"), AdminRow(2, "u2"), AdminRow(4, "u1"),
      AdminRow(5, "u2"), AdminRow(6, "u1"), AdminRow(7, "u2"), AdminRow(8, "u1") }

\* what the admin's select can answer: rows of all users, ordered by date descending
AdminSelectResults ==
    { q \in SeqsOver(AdminRows, MaxAdminRows) :
        /\ \A i, j \in 1..Len(q) : i # j => q[i].id # q[j].id
        /\ \A i \in 1..(Len(q) - 1) : StrLeq(q[i + 1].date, q[i].date) }

AdminSelectDoneStep ==
    \E i \in 1..Len(inflight), err \in BOOLEAN, rows \in AdminSelectResults :
        SelectDone(i, err, rows)

NextAdmin ==
    \/ session = NoSession /\ entries = <<>> /\ AddManualStep(CloudManualInputs)
    \/ SignInStep
    \/ loadCloudEntries
    \/ AdminSelectDoneStep

SpecAdmin == Init /\ [][NextAdmin]_vars

----------------------------------------------------------------------------
(* SpecReload: the timer and the entry list on one device, with page reloads *)

NextReload ==
    \/ StartTimerStep(CloudLabels)
    \/ stopTimer
    \/ Tick
    \/ AddManualStep(CloudManualInputs)
    \/ ClearStep
    \/ Reload

SpecReload == Init /\ [][NextReload]_vars

----------------------------------------------------------------------------
(* SpecLoad: the page is loaded with whatever local storage holds *)

\* an item that is no entry
NoEntry == [foo |-> 1]

\* values of tt_entries
StoredEntryValues ==
    << Missing, EmptyText, NotJSON, JSONNull, JSONNumber(5), JSONObject(NoEntry),
       JSONArray(<<>>), JSONArray(<< StoreEntry(StoredEntry(1, TRUE)) >>),
       JSONArray(<< NoEntry >>),
       JSONArray(<< StoreEntry(StoredEntry(1, FALSE)), NoEntry >>) >>

\* values of tt_projects
StoredProjectValues ==
    << Missing, NotJSON, JSONObject(NoEntry), JSONArray(<<>>), JSONArray(<< <<"A">>, <<"B">> >>),
       JSONArray(<< NoEntry >>) >>

\* values of tt_running
StoredTimerValues ==
    << Missing, NotJSON, JSONNull, JSONArray(<<>>), JSONObject(NoEntry),
       JSONObject([id |-> 1, project |-> <<"A">>, activity |-> EmptyStr, notes |-> EmptyStr,
                   startTs |-> T0]) >>

LoadStep ==
    \E e \in 1..Len(StoredEntryValues), p \in 1..Len(StoredProjectValues),
       t \in 1..Len(StoredTimerValues) :
        Load(StoredEntryValues[e], StoredProjectValues[p], StoredTimerValues[t])

NextLoad ==
    \/ LoadStep
    \/ SetViewStep

SpecLoad == Init /\ [][NextLoad]_vars

----------------------------------------------------------------------------
(* SpecClear: "Slett alle lokale" with entries in the list and a timer         *)
(* running, signed out and signed in                                           *)

NextClear ==
    \/ SignInStep
    \/ EmptySelectDoneStep
    \/ WriteDoneStep
    \/ AddManualStep(CloudManualInputs)
    \/ StartTimerStep(CloudLabels)
    \/ Tick
    \/ ClearStep

SpecClear == Init /\ [][NextClear]_vars

----------------------------------------------------------------------------
(* SpecSheet: a signed-in user imports sheets of one row whose Dato and Start   *)
(* cells hold texts of many shapes                                             *)

\* texts of a Dato cell
DateTexts ==
    << <<"2", "0", "2", "4", "-", "0", "3", "-", "0", "5">>,
       <<" ", "2", "0", "2", "4", "-", "0", "3", "-", "0", "5", " ">>,
       <<"5", ".", "3", ".", "2", "0", "2", "4">>,
       <<"0", "5", ".", "0", "3", ".", "2", "0", "2", "4">>,
       <<"5", "/", "3", "/", "2", "0", "2", "4">>,
       <<"1", "5", "-", "1", "1", "-", "2", "0", "2", "4">>,
       <<"5", ".", "3", "/", "2", "0", "2", "4">>,
       <<"5", ".", "3", ".", "2", "4">>,
       <<"2", "0", "2", "4", "-", "3", "-", "5">>,
       <<"2", "0", "2", "4", ".", "0", "3", ".", "0", "5">>,
       <<"0", "0", "5", ".", "0", "3", ".", "2", "0", "2", "4">>,
       <<"5", ".", "3", ".", "2", "0", "2", "4", "A">>,
       <<"2", "0", "2", "4", "0", "3", "0", "5">>,
       <<"5", ".", ".", "2", "0", "2", "4">>,
       EmptyStr >>

\* texts of a Start cell
TimeTexts ==
    << <<"9", ":", "3", "0">>,
       <<"0", "9", ":", "3", "0">>,
       <<"9", "3", "0">>,
       <<"0", "9", "3", "0">>,
       <<" ", "9", ":", "3", "0", " ">>,
       <<"2", "4", ":", "9", "9">>,
       <<"9", ":", "3">>,
       <<"9", "3">>,
       <<"1", "2", "3", "4", "5">>,
       <<"9", ".", "3", "0">>,
       <<"9", ":", "3", "0", ":", "0", "0">>,
       <<"A", ":", "3", "0">>,
       <<":", "3", "0">>,
       <<"9", ":", ":", "3", "0">> >>

\* sheets of one row: every Dato text with no Start, every Start text with a
\* Dato of today; Arbeidssted and Minutter are filled in
SheetFiles ==
    { << Row(DateTexts[k], <<"B">>, EmptyStr, EmptyStr, 45) >> : k \in 1..Len(DateTexts) }
        \cup { << Row(ISODate(0), <<"B">>, TimeTexts[k], EmptyStr, 45) >> : k \in 1..Len(TimeTexts) }

SheetStep == \E rows \in SheetFiles, err \in BOOLEAN : handleFile(rows, err)

NextSheet ==
    \/ SignInStep
    \/ SheetStep
    \/ SelectDoneStep

SpecSheet == Init /\ [][NextSheet]_vars

----------------------------------------------------------------------------
(* SpecExport: "Eksporter Excel" over stored entries of several dates, with     *)
(* notes of several lines                                                      *)

MaxExported == 2

\* the date, notes and minutes of stored entries
ExportSamples ==
    << [date |-> ISODate(1),  notes |-> <<"n">>,                     minutes |-> 45],
       [date |-> ISODate(0),  notes |-> <<"n", "\n", "n">>,          minutes |-> 50],
       [date |-> ISODate(0),  notes |-> <<"n", "\r", "\n", "\n">>,   minutes |-> 1],
       [date |-> ISODate(31), notes |-> EmptyStr,                    minutes |-> 90],
       [date |-> ISODate(9),  notes |-> <<"\n">>,                    minutes |-> 125],
       [date |-> ISODate(10), notes |-> <<"n", " ", "n">>,           minutes |-> -30] >>

ExportEntry(id, k) ==
    [id |-> id, date |-> ExportSamples[k].date, project |-> <<"B">>, activity |-> EmptyStr,
     notes |-> ExportSamples[k].notes, start |-> EmptyStr, end |-> EmptyStr,
     minutes |-> ExportSamples[k].minutes, createdAt |-> T0, userId |-> NoSession]

\* the state after construction, with at most MaxExported entries in local storage
InitExport ==
    /\ \E n \in 0..MaxExported : \E ks \in [1..n -> 1..Len(ExportSamples)] :
          entries = [i \in 1..n |-> ExportEntry(i, ks[i])]
    /\ projects = IF entries = <<>> THEN <<>> ELSE << <<"B">> >>
    /\ running = <<>>
    /\ view = "all"
    /\ now = T0
    /\ filterDate = ISODate(LocalMs(T0) \div MsPerDay)
    /\ session = NoSession
    /\ inflight = <<>>
    /\ lastOp = Op("init", "", <<>>)
    /\ InitSide

NextExport ==
    \/ exportXLSX
    \/ DeleteStep
    \/ ClearStep

SpecExport == InitExport /\ [][NextExport]_vars

----------------------------------------------------------------------------
(* SpecProjects: the project list, from a stored list, under addProject,        *)
(* startTimer, addManualEntry and cloud loads of rows that share projects      *)

MaxFetched == 3

\* rows of time_entries, two of them of the same project
ProjectRows ==
    { [id |-> 100 + k, user_id |-> "u1", date |-> ISODate(0),
       project |-> IF k = 2 THEN <<"A">> ELSE <<"B">>,
       activity |-> Null, notes |-> Null, start |-> Null, end |-> Null,
       minutes |-> 45, created_at |-> toISOString(T0)] : k \in 1..3 }

ProjectSelectResults ==
    { q \in SeqsOver(ProjectRows, MaxFetched) : \A i, j \in 1..Len(q) : i # j => q[i].id # q[j].id }

ProjectSelectDoneStep ==
    \E i \in 1..Len(inflight), err \in BOOLEAN, rows \in ProjectSelectResults :
        SelectDone(i, err, rows)

\* what loadProjects() returns for a well-formed tt_projects
StoredProjectLists == { <<>>, << <<"A">> >>, << <<"B">> >>, << <<"A">>, <<"B">> >> }

InitProjects ==
    /\ entries = <<>>
    /\ projects \in StoredProjectLists
    /\ running = <<>>
    /\ view = "day"
    /\ now = T0
    /\ filterDate = ISODate(LocalMs(T0) \div MsPerDay)
    /\ session = NoSession
    /\ inflight = <<>>
    /\ lastOp = Op("init", "", <<>>)
    /\ InitSide

NextProjects ==
    \/ AddProjectStep(Labels)
    \/ StartTimerStep(Labels)
    \/ entries = <<>> /\ AddManualStep(CloudManualInputs)
    \/ SignInStep
    \/ loadCloudEntries
    \/ ProjectSelectDoneStep
    \/ WriteDoneStep

SpecProjects == InitProjects /\ [][NextProjects]_vars

----------------------------------------------------------------------------
(* SpecRealtime: a user signs in and out while the realtime channel answers    *)

ProfileDoneStep ==
    \E i \in 1..Len(profileFetches), err \in BOOLEAN, admin \in BOOLEAN : ProfileDone(i, err, admin)

SetTabStep == \E t \in {"registrering", "admin"} : setTab(t)

ChannelStatusStep ==
    \E k \in 1..Len(channels), status \in ChannelStatuses : ChannelStatus(channels[k].id, status)

NextRealtime ==
    \/ SignInStep
    \/ SignOut
    \/ ProfileDoneStep
    \/ ChannelStatusStep
    \/ loadCloudEntries
    \/ SelectDoneStep
    \/ WriteDoneStep
    \/ AddManualStep(CloudManualInputs)

SpecRealtime == Init /\ [][NextRealtime]_vars

----------------------------------------------------------------------------
(* SpecProfile: users sign in and out, their profiles are fetched, and the     *)
(* tabs are switched                                                           *)

NextProfile ==
    \/ SignInStep
    \/ SignOut
    \/ ProfileDoneStep
    \/ SetTabStep
    \/ SelectDoneStep
    \/ ChannelStatusStep

SpecProfile == Init /\ [][NextProfile]_vars

----------------------------------------------------------------------------
(* SpecSync: a signed-in user and another device of theirs write to            *)
(* time_entries; every change is notified and every notification fetched      *)

MaxSyncInflight == 2
MaxEvents == 1

ServeSelectStep == \E i \in 1..Len(inflight) : ServeSelect(i)

ServerApplyStep == \E i \in 1..Len(inflight) : ServerApply(i, MaxEvents)

OtherDeviceStep == \E row \in CloudRows : OtherDeviceInsert(row, MaxEvents)

\* a select the server has run answers with its rows
ServedSelectDoneStep ==
    \E i \in 1..Len(inflight) :
        /\ inflight[i].op = "select"
        /\ inflight[i].payload # <<>>
        /\ SelectDone(i, FALSE, inflight[i].payload[1])

\* a write the server has run answers
AppliedWriteDoneStep ==
    \E i \in 1..Len(inflight) : inflight[i].op = "applied" /\ WriteDone(i, FALSE)

NextSync ==
    \/ SignInStep
    \/ ServeSelectStep
    \/ ServedSelectDoneStep
    \/ Len(entries) < MaxCloudEntries /\ AddManualStep(CloudManualInputs)
    \/ DeleteStep
    \/ ServerApplyStep
    \/ AppliedWriteDoneStep
    \/ OtherDeviceStep
    \/ OnPostgresChange(MaxSyncInflight)

SpecSync == Init /\ [][NextSync]_vars

----------------------------------------------------------------------------
(* SpecRender: a signed-in user edits rows of the table while the answers of   *)
(* fetches arrive; another device has changed the project of a row            *)

RenderRows ==
    LET r == CHOOSE row \in CloudRows : row.id = 101
    IN  { r, [r EXCEPT !.project = <<"A">>] }

RenderResults == { <<>> } \cup { << r >> : r \in RenderRows }

SelectDoneBeforeRenderStep ==
    \E i \in 1..Len(inflight), rows \in RenderResults : SelectDoneBeforeRender(i, rows)

NextRender ==
    \/ SignInStep
    \/ loadCloudEntries
    \/ SelectDoneBeforeRenderStep
    \/ Render
    \/ NotesEditStep
    \/ MinutesEditStep
    \/ WriteDoneStep

SpecRender == Init /\ [][NextRender]_vars

----------------------------------------------------------------------------
(* Claims on the timer *)

\* C1: there is at most one running timer, a running timer is never replaced by
\* another one, and a startTimer call made while a timer is running or with a
\* project that is blank after trimming leaves the running timer, the entry list
\* and the project list unchanged.
C1_StartTimerRejected ==
    [][ /\ Len(running') <= 1
        /\ (running # <<>> /\ running' # <<>> => running' = running)
        /\ (lastOp'.op = "startTimer" /\ (running # <<>> \/ Trim(lastOp'.arg) = EmptyStr)
               => UNCHANGED <<running, entries, projects>>) ]_vars

\* a start was refused because a timer was running, and that timer still runs
C1_Witness ==
    /\ lastOp.op = "startTimer"
    /\ lastOp.res = "alert: En timer kjorer allerede"
    /\ Trim(lastOp.arg) # EmptyStr
    /\ running # <<>>
    /\ running[1].project # Trim(lastOp.arg)

\* minutes since 09:00 local time of an "HH:MM" string
SinceNine(hhmm) == diffMinutes(HHMM(9, 0), hhmm)

\* C2: stopTimer while a timer runs adds exactly one new entry, carrying the
\* timer's project, activity and notes, dated today, with the start and stop
\* instants as clock times, leaves every entry that existed unchanged and clears
\* the timer; stopTimer while idle changes nothing.
C2_StopTimerAddsOneEntry ==
    [][ lastOp'.op = "stopTimer" =>
          IF running = <<>>
          THEN UNCHANGED <<entries, projects, running, inflight>>
          ELSE /\ Len(entries') = Len(entries) + 1
               /\ \A i \in 1..Len(entries) : \E j \in 1..Len(entries') : entries'[j] = entries[i]
               /\ \E j \in 1..Len(entries') :
                    /\ \A i \in 1..Len(entries) : entries[i].id # entries'[j].id
                    /\ entries'[j].project = running[1].project
                    /\ entries'[j].activity = running[1].activity
                    /\ entries'[j].notes = running[1].notes
                    /\ entries'[j].date = ISODate(0)
                    /\ SinceNine(entries'[j].start) = (running[1].startTs - T0) \div MsPerMinute
                    /\ SinceNine(entries'[j].end) = (now - T0) \div MsPerMinute
               /\ running' = <<>>
               /\ projects' = projects ]_vars

\* a timer was stopped while an older entry existed
C2_Witness ==
    /\ lastOp.op = "stopTimer"
    /\ lastOp.res = "stopped"
    /\ Len(entries) = 2
    /\ entries[1].project # entries[2].project
    /\ running = <<>>

\* C10: the entry stopTimer produces has minutes = max(1, round(elapsedMs / 60000)):
\* at least 1 for every elapsed time, 1 for 0 ms, 2 for 125 s; the entry is the
\* head of the list, created at the stop instant.
C10_StopTimerMinutes ==
    (lastOp.op = "stopTimer" /\ lastOp.res = "stopped") =>
        LET elapsed == entries[1].createdAt - lastOp.arg.startTs
            m       == entries[1].minutes
        IN  /\ m >= 1
            /\ (elapsed = 0 => m = 1)
            /\ (elapsed = 125000 => m = 2)
            /\ (elapsed < 30000 => m = 1)
            /\ (elapsed >= 30000 => 60000 * m - 30000 <= elapsed /\ elapsed < 60000 * m + 30000)

\* a timer was stopped 125 seconds after it was started
C10_Witness ==
    /\ lastOp.op = "stopTimer"
    /\ lastOp.res = "stopped"
    /\ entries[1].createdAt - lastOp.arg.startTs = 125000
    /\ entries[1].minutes = 2

----------------------------------------------------------------------------
(* Claims on inline edits *)

\* the fields a patch sets
Touches(patch, f) == f \in DOMAIN patch

\* C3: after an inline edit of start or end, that is after every updateEntry
\* whose patch touches start or end, an entry that has both start and end
\* non-empty has minutes = diffMinutes(start, end).
C3_EditRecomputesMinutes ==
    [][ (lastOp'.op = "updateEntry"
            /\ (Touches(lastOp'.arg[2], "start") \/ Touches(lastOp'.arg[2], "end")))
        => \A j \in 1..Len(entries') :
              (entries'[j].id = lastOp'.arg[1]
                 /\ entries'[j].start # EmptyStr /\ entries'[j].end # EmptyStr)
              => entries'[j].minutes = diffMinutes(entries'[j].start, entries'[j].end) ]_vars

\* an entry stored without times got a start and then an end: 09:00 to 10:30
C3_Witness ==
    /\ lastOp.op = "updateEntry"
    /\ Touches(lastOp.arg[2], "end")
    /\ Len(entries) = 1
    /\ entries[1].project = <<"A">>
    /\ entries[1].start = HHMM(9, 0)
    /\ entries[1].end = HHMM(10, 30)
    /\ entries[1].minutes = 90

\* C7: every entry of the entry list has minutes >= 0.
C7_MinutesNonNegative ==
    \A i \in 1..Len(entries) : entries[i].minutes >= 0

----------------------------------------------------------------------------
(* Claims on the manual-entry form *)

\* the duration a submitted form carries is not positive: the end time is not
\* after the start time, or the minutes value passed is <= 0
NonPositiveDuration(data) ==
    \/ /\ Trim(data.start) # EmptyStr
       /\ Trim(data.end) # EmptyStr
       /\ diffMinutes(Trim(data.start), Trim(data.end)) <= 0
    \/ data.minutes <= 0

\* C4: addManualEntry with a duration that is not positive creates no entry and
\* leaves the entry list, the project list and the running timer unchanged.
C4_NonPositiveRejected ==
    [][ (lastOp'.op = "addManualEntry" /\ NonPositiveDuration(lastOp'.arg))
        => UNCHANGED <<entries, projects, running>> ]_vars

----------------------------------------------------------------------------
(* Claims on the cloud mirror *)

\* C8: when a remote insert, update or delete answers with an error, the entry
\* list, the project list and the running timer stay as the local mutation left
\* them, and the answered request leaves the requests in flight with no new
\* request issued; the local mutation is applied in the step that issues the
\* request.
C8_FailedWriteKeepsLocal ==
    [][ /\ (lastOp'.op = "writeDone" /\ lastOp'.res = "error")
             => /\ UNCHANGED <<entries, projects, running, session>>
                /\ Len(inflight') = Len(inflight) - 1
                /\ \A i \in 1..Len(inflight') : \E j \in 1..Len(inflight) : inflight'[i] = inflight[j]
        /\ (lastOp'.res \in {"added", "stopped"} /\ session # NoSession)
             => /\ inflight'[Len(inflight')].op = "insert"
                /\ HasEntry(entries', inflight'[Len(inflight')].id)
                /\ ~HasEntry(entries, inflight'[Len(inflight')].id)
        /\ (lastOp'.op = "deleteEntry" /\ session # NoSession)
             => /\ inflight'[Len(inflight')].op = "delete"
                /\ ~HasEntry(entries', lastOp'.arg) ]_vars

\* the update of an edited entry failed, and the entry keeps the edited minutes
C8_Witness ==
    /\ lastOp.op = "writeDone"
    /\ lastOp.res = "error"
    /\ lastOp.arg.op = "update"
    /\ HasEntry(entries, lastOp.arg.id)
    /\ FindEntry(entries, lastOp.arg.id).minutes = 30
    /\ lastOp.arg.payload.minutes = 30
    /\ inflight = <<>>

\* the strings of a list, as a set
Range(s) == { s[i] : i \in 1..Len(s) }

\* C9: a fetch that succeeds replaces the entry list by the fetched rows, mapped,
\* in fetched order, and the project list by the sorted distinct project names
\* of the rows; a fetch that fails, or a load with no user signed in, leaves
\* both lists unchanged.
C9_FetchReplacesLocal ==
    [][ /\ (lastOp'.op = "selectDone" /\ lastOp'.res = "ok")
             => LET rows == lastOp'.arg
                IN  /\ Len(entries') = Len(rows)
                    /\ \A i \in 1..Len(rows) :
                         /\ entries'[i].id = rows[i].id
                         /\ entries'[i].userId = rows[i].user_id
                         /\ entries'[i].date = rows[i].date
                         /\ entries'[i].project = rows[i].project
                         /\ entries'[i].minutes = rows[i].minutes
                         /\ entries'[i].activity =
                              (IF rows[i].activity = Null THEN EmptyStr ELSE rows[i].activity)
                         /\ entries'[i].notes =
                              (IF rows[i].notes = Null THEN EmptyStr ELSE rows[i].notes)
                         /\ entries'[i].start =
                              (IF rows[i].start = Null THEN EmptyStr ELSE SubSeq(rows[i].start, 1, 5))
                         /\ entries'[i].end =
                              (IF rows[i].end = Null THEN EmptyStr ELSE SubSeq(rows[i].end, 1, 5))
                    /\ Range(projects') = { rows[i].project : i \in 1..Len(rows) }
                    /\ \A i \in 1..(Len(projects') - 1) : StrLess(projects'[i], projects'[i + 1])
        /\ (lastOp'.op = "selectDone" /\ lastOp'.res = "error")
             => UNCHANGED <<entries, projects>>
        /\ (lastOp'.op = "loadCloudEntries" /\ lastOp'.res = "no user")
             => UNCHANGED <<entries, projects, inflight>> ]_vars

\* a fetch of two rows replaced the lists: the entries in fetched order, the
\* projects in sorted order
C9_Witness ==
    /\ lastOp.op = "selectDone"
    /\ lastOp.res = "ok"
    /\ Len(lastOp.arg) = 2
    /\ Len(entries) = 2
    /\ entries[1].id = 102
    /\ entries[1].project = <<"A">>
    /\ entries[2].id = 101
    /\ entries[2].start = HHMM(9, 0)
    /\ projects = << <<"A">>, <<"B">> >>

----------------------------------------------------------------------------
(* Claims on the week filter *)

\* the day number of the Monday on or before a day number
MondayOf(days) == days - ((WeekDay(days) + 6) % 7)

\* C5: filterEntries(entries, "week", D) is exactly the entries dated from the
\* Monday on or before D to the Sunday after it.
C5_WeekWindow ==
    view = "week" =>
        LET monday == MondayOf(ParseISODate(filterDate))
            InWeek(e) == /\ monday <= ParseISODate(e.date)
                         /\ ParseISODate(e.date) <= monday + 6
        IN  filtered = SelectSeq(entries, InWeek)

----------------------------------------------------------------------------
(* Claims on the import *)

\* C6: every row an import inserts has a non-empty date, a non-empty project and
\* minutes > 0, and the imported total counts the inserted rows.
C6_ImportAcceptsPositiveOnly ==
    lastOp.op = "handleFile" =>
        /\ \A k \in 1..Len(lastOp.arg.payload) :
              /\ lastOp.arg.payload[k].date # EmptyStr
              /\ lastOp.arg.payload[k].project # EmptyStr
              /\ lastOp.arg.payload[k].minutes > 0
        /\ lastOp.arg.inserted = Len(lastOp.arg.payload)

----------------------------------------------------------------------------
(* Claims on the validation of the manual-entry form *)

\* the form carries a blank project, or no duration and not both start and end
BlankOrNoDuration(data) ==
    \/ Trim(data.project) = EmptyStr
    \/ /\ data.minutes = 0
       /\ ~(Trim(data.start) # EmptyStr /\ Trim(data.end) # EmptyStr)

\* C11: addManualEntry with a blank project, or with no duration and not both
\* start and end, leaves the entry list, the project list and the running timer
\* unchanged and issues no remote insert.
C11_InvalidFormAborts ==
    [][ (lastOp'.op = "addManualEntry" /\ BlankOrNoDuration(lastOp'.arg))
        => UNCHANGED <<entries, projects, running, inflight>> ]_vars

\* a form with a blank project and 45 minutes was refused while a user was
\* signed in and an entry existed
C11_Witness ==
    /\ lastOp.op = "addManualEntry"
    /\ lastOp.res = "alert: Velg/skriv et arbeidssted"
    /\ lastOp.arg.minutes = 45
    /\ session # NoSession
    /\ inflight = <<>>
    /\ Len(entries) = 1

----------------------------------------------------------------------------
(* Claims on the project list *)

\* C12: right after an entry is created (addManualEntry, stopTimer) or a project
\* is registered (addProject, startTimer), the trimmed project name is in the
\* project list.
C12_ProjectRegistered ==
    /\ (lastOp.op = "stopTimer" /\ lastOp.res = "stopped")
          => Includes(projects, lastOp.arg.project)
    /\ (lastOp.op = "addManualEntry" /\ lastOp.res = "added")
          => Includes(projects, Trim(lastOp.arg.project))
    /\ (lastOp.op = "startTimer" /\ lastOp.res = "started")
          => Includes(projects, Trim(lastOp.arg))
    /\ (lastOp.op = "addProject" /\ Trim(lastOp.arg) # EmptyStr)
          => Includes(projects, Trim(lastOp.arg))

\* C13: every entry of the entry list has a non-empty project.
C13_ProjectNonEmpty ==
    \A i \in 1..Len(entries) : entries[i].project # EmptyStr

----------------------------------------------------------------------------
(* Claims on updateEntry *)

\* the patch sets no field to a value other than the one the entry has
PatchIsCurrent(e, patch) == \A f \in DOMAIN patch : e[f] = patch[f]

\* C18: updateEntry keeps the length and the order of the list and every other
\* entry; with a patch equal to the entry's current field values the list is
\* unchanged; the same patch applied a second time changes nothing.
C18_UpdateIdempotent ==
    [][ lastOp'.op = "updateEntry" =>
          /\ Len(entries') = Len(entries)
          /\ \A j \in 1..Len(entries) :
                /\ entries'[j].id = entries[j].id
                /\ entries[j].id # lastOp'.arg[1] => entries'[j] = entries[j]
                /\ (entries[j].id = lastOp'.arg[1] /\ PatchIsCurrent(entries[j], lastOp'.arg[2]))
                      => entries'[j] = entries[j]
                /\ entries[j].id = lastOp'.arg[1] => PatchIsCurrent(entries'[j], lastOp'.arg[2])
          /\ (lastOp.op = "updateEntry" /\ lastOp.arg[1] = lastOp'.arg[1]
                 /\ DOMAIN lastOp.arg[2] = DOMAIN lastOp'.arg[2]
                 /\ lastOp.arg[2] = lastOp'.arg[2])
                => entries' = entries ]_vars

\* the second of two entries was updated with its own date
C18_Witness ==
    /\ lastOp.op = "updateEntry"
    /\ Len(entries) = 2
    /\ lastOp.arg[1] = entries[2].id
    /\ Touches(lastOp.arg[2], "date")
    /\ lastOp.arg[2].date = entries[2].date
    /\ entries[1].project # entries[2].project

----------------------------------------------------------------------------
(* Claims on the day and all filters *)

\* C14: filterEntries(entries, "day", D) is the entries dated D, in the order of
\* the list, and filterEntries(entries, "all", D) is the list.
C14_DayAndAllFilter ==
    /\ view = "day" =>
          LET OnDay(e) == e.date = filterDate
          IN  filtered = SelectSeq(entries, OnDay)
    /\ view = "all" => filtered = entries

\* the day filter keeps the second of two entries and drops the first, dated
\* the day before
C14_Witness ==
    /\ view = "day"
    /\ Len(entries) = 2
    /\ entries[1].date = ISODate(DaysFromCivil(2024, 2, 25))
    /\ entries[2].date = filterDate
    /\ filtered = << entries[2] >>

----------------------------------------------------------------------------
(* Claims on the row mapping *)

\* an optional text of an entry, its column in the row and the text mapped back:
\* empty becomes null and empty again, anything else is kept
OptionalKept(text, column, back) ==
    /\ back = text
    /\ column = (IF text = EmptyStr THEN Null ELSE text)

\* a clock time of an entry, its column in the row and the time mapped back:
\* "HH:MM" becomes "HH:MM:00" and "HH:MM" again, empty becomes null and empty
ClockKept(time, column, back) ==
    /\ back = time
    /\ IF time = EmptyStr THEN column = Null
       ELSE /\ Len(column) = Len(time) + 3
            /\ SubSeq(column, 1, Len(time)) = time
            /\ SubSeq(column, Len(time) + 1, Len(time) + 3) = <<":", "0", "0">>

\* C15: toDbRow followed by the row => Entry mapping of the cloud load keeps id,
\* date, project and minutes, maps start and end to HH:MM:SS and back, maps
\* empty activity, notes, start and end to null and back to the empty string,
\* and a second round trip gives the same row and the same entry.
C15_RowRoundTrip ==
    \A i \in 1..Len(entries), u \in Users :
        LET e    == entries[i]
            row  == toDbRow(e, u)
            back == RowToEntry(row)
        IN  /\ row.id = e.id /\ back.id = e.id
            /\ row.date = e.date /\ back.date = e.date
            /\ row.project = e.project /\ back.project = e.project
            /\ row.minutes = e.minutes /\ back.minutes = e.minutes
            /\ ClockKept(e.start, row.start, back.start)
            /\ ClockKept(e.end, row.end, back.end)
            /\ OptionalKept(e.activity, row.activity, back.activity)
            /\ OptionalKept(e.notes, row.notes, back.notes)
            /\ toDbRow(back, u) = row
            /\ RowToEntry(toDbRow(back, u)) = back

\* an entry with a start and no end, no activity and no notes
C15_Witness ==
    /\ Len(entries) = 1
    /\ entries[1].start = HHMM(10, 30)
    /\ entries[1].end = EmptyStr
    /\ entries[1].activity = EmptyStr
    /\ entries[1].notes = EmptyStr
    /\ lastOp.op = "updateEntry"

----------------------------------------------------------------------------
(* Claims on the admin summary *)

\* ISO 8601: the week of a day is the week of its Thursday, numbered within the
\* year of that Thursday
ISOWeekOf(days) ==
    LET thursday == days - ((WeekDay(days) + 6) % 7) + 3
        y        == CivilFromDays(thursday).y
    IN  [year |-> y, week |-> (thursday - DaysFromCivil(y, 1, 1)) \div 7 + 1]

\* the days from 2020-12-21 to 2021-01-17
WeekClaimDays == DaysFromCivil(2020, 12, 21)..DaysFromCivil(2021, 1, 17)

PairOf(e) ==
    << IF e.userId = NoSession THEN "ukjent" ELSE e.userId,
       YearWeek(ISOWeekOf(ParseISODate(e.date))) >>

RECURSIVE SumOver(_, _)
SumOver(S, f) ==
    IF S = {} THEN 0
    ELSE LET x == CHOOSE y \in S : TRUE IN f[x] + SumOver(S \ {x}, f)

----------------------------------------------------------------------------
(* Claims on local storage *)

\* C19: local storage holds a running-timer snapshot exactly when a timer is
\* running; the stored lists are the lists in memory; a reload restores the
\* entries, the projects and the running timer.
C19_ReloadRestores ==
    [][ /\ (Stored.tt_running.t = "missing") <=> (running = <<>>)
        /\ running # <<>> => Stored.tt_running.obj = running[1]
        /\ Len(Stored.tt_entries.items) = Len(entries)
        /\ \A i \in 1..Len(entries) :
              \A f \in {"id", "date", "project", "activity", "notes", "start", "end",
                        "minutes", "createdAt"} :
                 Stored.tt_entries.items[i][f] = entries[i][f]
        /\ Stored.tt_projects.items = projects
        /\ lastOp'.op = "load" => UNCHANGED <<entries, projects, running>> ]_vars

\* a reload with a timer running and an entry in the list
C19_Witness ==
    /\ lastOp.op = "load"
    /\ running # <<>>
    /\ running[1].project = <<"A">>
    /\ Len(entries) = 1
    /\ projects = << <<"A">>, <<"B">> >>

\* a stored item has the fields of an entry
IsStoredEntry(o) ==
    {"id", "date", "project", "minutes", "createdAt"} \subseteq DOMAIN o

\* tt_entries holds a list of entries
WellFormedEntries(raw) ==
    /\ raw.t = "array"
    /\ \A i \in 1..Len(raw.items) : IsStoredEntry(raw.items[i])

\* tt_running holds an object with a start timestamp
WellFormedTimer(raw) ==
    /\ raw.t = "object"
    /\ "startTs" \in DOMAIN raw.obj

\* C20: a stored value that is missing, is no JSON or has the wrong shape loads
\* as the empty default: no entries, no timer.
C20_MalformedLoadsEmpty ==
    lastOp.op = "load" =>
        /\ ~WellFormedEntries(lastOp.arg.tt_entries) => entries = <<>>
        /\ ~WellFormedTimer(lastOp.arg.tt_running) => running = <<>>

----------------------------------------------------------------------------
(* Claims on clear-all *)

\* C21: a confirmed clearLocal empties the entry list and cancels the running
\* timer without storing an entry for it, and leaves the project list and the
\* remote calls as they are (no delete is issued); an unconfirmed one changes
\* nothing.
C21_ClearAll ==
    [][ lastOp'.op = "clearLocal" =>
          IF lastOp'.res = "cleared"
          THEN /\ entries' = <<>>
               /\ running' = <<>>
               /\ UNCHANGED <<projects, inflight, session>>
          ELSE UNCHANGED <<entries, running, projects, inflight, session>> ]_vars

\* a signed-in user confirmed the clearing of one entry and a running timer
C21_Witness ==
    /\ lastOp.op = "clearLocal"
    /\ lastOp.res = "cleared"
    /\ lastOp.arg = <<1, 1>>
    /\ session # NoSession
    /\ projects = << <<"A">>, <<"B">> >>
    /\ entries = <<>>
    /\ running = <<>>

----------------------------------------------------------------------------
(* Claims on the normalisation of imported cells *)

\* the parts of s between the separators, when s is three runs of digits of the
\* given lengths joined by sep
IsDigitRuns(s, sep, lens) ==
    LET parts == Split(s, sep)
    IN  /\ Len(parts) = 3
        /\ \A k \in 1..3 : Len(parts[k]) \in lens[k] /\ AllDigits(parts[k])

\* what the claim says normalizeDate returns for a text (judged without the
\* blanks around it)
ClaimedDate(v) ==
    LET s    == Trim(v)
        seps == { c \in {".", "/", "-"} : IsDigitRuns(s, c, << {1, 2}, {1, 2}, {4} >>) }
    IN  IF IsDigitRuns(s, "-", << {4}, {2}, {2} >>) THEN s
        ELSE IF seps = {} THEN EmptyStr
        ELSE LET parts == Split(s, CHOOSE c \in seps : TRUE)
             IN  parts[3] \o <<"-">> \o PadStart(parts[2], 2) \o <<"-">> \o PadStart(parts[1], 2)

\* C22: normalizeDate returns a YYYY-MM-DD text as it is, turns D.M.YYYY,
\* D/M/YYYY and D-M-YYYY into zero-padded YYYY-MM-DD, and returns "" for every
\* other text (the row is then dropped); its non-empty result is returned
\* unchanged when normalised again.
C22_NormalizeDate ==
    lastOp.op = "handleFile" /\ Len(lastOp.arg.rows) = 1 =>
        LET v == lastOp.arg.rows[1].Dato
        IN  /\ lastOp.res = "Fant ingen gyldige rader i filen." => ClaimedDate(v) = EmptyStr
            /\ lastOp.res = "Importert" =>
                  /\ lastOp.arg.payload[1].date = ClaimedDate(v)
                  /\ normalizeDate(lastOp.arg.payload[1].date) = lastOp.arg.payload[1].date

\* what the claim says normalizeTime returns for a text: one or two digits, an
\* optional colon and two digits, without the blanks around it, as HH:MM
ClaimedTime(v) ==
    LET s == Trim(v)
        n == Len(s)
        d == IF n >= 3 /\ s[n - 2] = ":" THEN SubSeq(s, 1, n - 3) \o SubSeq(s, n - 1, n) ELSE s
    IN  IF Len(d) \in {3, 4} /\ AllDigits(d)
        THEN PadStart(SubSeq(d, 1, Len(d) - 2), 2) \o <<":">> \o SubSeq(d, Len(d) - 1, Len(d))
        ELSE EmptyStr

\* C23: normalizeTime turns exactly the texts made of one or two digits, an
\* optional colon and two digits (after trimming) into zero-padded HH:MM and
\* every other text into "" (stored as null); a non-empty result has five
\* characters, two digits on each side of the colon, which diffMinutes parses.
C23_NormalizeTime ==
    lastOp.op = "handleFile" /\ lastOp.res = "Importert" /\ Len(lastOp.arg.rows) = 1 =>
        LET v     == lastOp.arg.rows[1].Start
            start == lastOp.arg.payload[1].start
            hhmm  == SubSeq(start, 1, Len(start) - 3)
        IN  /\ (start = Null) <=> (ClaimedTime(v) = EmptyStr)
            /\ start # Null =>
                  /\ hhmm = ClaimedTime(v)
                  /\ Len(hhmm) = 5
                  /\ Len(Split(hhmm, ":")) = 2
                  /\ \A k \in 1..2 : Len(Split(hhmm, ":")[k]) = 2 /\ AllDigits(Split(hhmm, ":")[k])
                  /\ diffMinutes(hhmm, hhmm) = 0
                  /\ diffMinutes(HHMM(0, 0), hhmm)
                        = 60 * Number(SubSeq(hhmm, 1, 2)) + Number(SubSeq(hhmm, 4, 5))

\* a sheet whose Start cell reads "930" was imported with start 09:30
C23_Witness ==
    /\ lastOp.op = "handleFile"
    /\ lastOp.res = "Importert"
    /\ lastOp.arg.rows[1].Start = <<"9", "3", "0">>
    /\ lastOp.arg.payload[1].start = <<"0", "9", ":", "3", "0", ":", "0", "0">>

----------------------------------------------------------------------------
(* Claims on the export *)

\* the hundredths a text with two decimals stands for
Hundredths(s) ==
    LET neg   == s # <<>> /\ s[1] = "-"
        parts == Split(IF neg THEN Tail(s) ELSE s, ".")
        h     == 100 * Number(parts[1]) + Number(parts[2])
    IN  IF neg THEN 0 - h ELSE h

\* the row is the row of the entry: its fields, its notes on one line, its
\* minutes as hours with two decimals
IsRowOf(row, e) ==
    /\ row.Dato = e.date /\ row.Arbeidssted = e.project /\ row.Ordrenr = e.activity
    /\ row.Start = e.start /\ row.Slutt = e.end /\ row.Minutter = e.minutes
    /\ \A k \in 1..Len(row.Notater) : row.Notater[k] # "\n"
    /\ (\A k \in 1..Len(e.notes) : e.notes[k] \notin {"\n", "\r"}) => row.Notater = e.notes
    /\ Len(Split(row.Timer, ".")) = 2 /\ Len(Split(row.Timer, ".")[2]) = 2
    /\ 60 * Hundredths(row.Timer) - 100 * e.minutes \in -30..30

\* C24: the exported table is the header row and one data row per entry of the
\* list, in non-decreasing date order, each with the hours to two decimals and
\* the notes on one line; the export leaves the entry list as it is.
C24_ExportRows ==
    [][ lastOp'.op = "exportXLSX" =>
          LET rows == lastOp'.arg.rows
              n    == Len(entries)
          IN  /\ entries' = entries
              /\ lastOp'.arg.header = ExportHeader
              /\ Len(rows) = n
              /\ \E f \in [1..n -> 1..n] :
                    /\ \A i, j \in 1..n : i # j => f[i] # f[j]
                    /\ \A i \in 1..n : IsRowOf(rows[f[i]], entries[i])
              /\ \A i \in 1..(n - 1) : StrLeq(rows[i].Dato, rows[i + 1].Dato) ]_vars

\* two entries stored newest first were exported oldest first, one with notes
\* of two lines
C24_Witness ==
    /\ lastOp.op = "exportXLSX"
    /\ Len(entries) = 2
    /\ StrLess(entries[2].date, entries[1].date)
    /\ lastOp.arg.rows[1].Dato = entries[2].date
    /\ entries[2].notes = <<"n", "\n", "n">>
    /\ lastOp.arg.rows[1].Notater = <<"n", " ", "n">>
    /\ lastOp.arg.rows[1].Timer = <<"0", ".", "8", "3">>

----------------------------------------------------------------------------
(* Claims on the order of the project list *)

\* C25: from an empty or well-formed stored project list, the project list
\* holds no name twice and is in alphabetical order after any sequence of
\* addProject, startTimer, addManualEntry and cloud loads.
C25_ProjectsDistinctSorted ==
    /\ \A i, j \in 1..Len(projects) : i # j => projects[i] # projects[j]
    /\ \A i \in 1..(Len(projects) - 1) : StrLess(projects[i], projects[i + 1])

\* a cloud load of three rows, two of the same project, gave the list A, B
C25_Witness ==
    /\ lastOp.op = "selectDone"
    /\ lastOp.res = "ok"
    /\ Len(lastOp.arg) = 3
    /\ lastOp.arg[1].project = <<"B">>
    /\ lastOp.arg[3].project = <<"B">>
    /\ projects = << <<"A">>, <<"B">> >>

----------------------------------------------------------------------------
(* Claims on the clock times of a stopped timer *)

\* C30: an entry stopTimer makes from a timer started and stopped on the same
\* calendar day has minutes = diffMinutes(start, end) of its recorded clock
\* times, and its end is not earlier than its start.
C30_MinutesMatchClock ==
    (lastOp.op = "stopTimer" /\ lastOp.res = "stopped"
        /\ LocalMs(lastOp.arg.startTs) \div MsPerDay = LocalMs(entries[1].createdAt) \div MsPerDay)
    => /\ entries[1].minutes = diffMinutes(entries[1].start, entries[1].end)
       /\ diffMinutes(entries[1].start, entries[1].end) >= 0

----------------------------------------------------------------------------
(* Claims on the realtime channel *)

\* C26: while the same user stays signed in, a channel that reported SUBSCRIBED
\* stays subscribed: right after the report the app holds exactly one channel,
\* the one that reported, joined, and channelJoined is true; at most one
\* channel is open at any time.
C26_ChannelStaysSubscribed ==
    /\ Len(channels) <= 1
    /\ (lastOp.op = "channelStatus" /\ lastOp.res = "SUBSCRIBED" /\ session # NoSession) =>
          /\ channelJoined
          /\ channels = << [id |-> lastOp.arg, status |-> "joined"] >>

----------------------------------------------------------------------------
(* Claims on the admin panel *)

\* C29: the admin panel is rendered only while a user is signed in whose own
\* profile has is_admin = true.
C29_AdminPanelOnlyForAdmin ==
    AdminPanelShown =>
        /\ session # NoSession
        /\ profile # <<>>
        /\ profile[1].user_id = session
        /\ profile[1].is_admin

----------------------------------------------------------------------------
(* Claims on the agreement of the list with the cloud *)

\* every remote call has answered and every notification has been fetched
Quiescent == session # NoSession /\ inflight = <<>> /\ events = 0

\* C27: while signed in, once every issued write and fetch has completed and
\* nothing more happens, the entry list is the mapping of the rows of
\* time_entries: no older snapshot is left in place.
C27_ListAgreesWithCloud ==
    Quiescent =>
        /\ Len(entries) = Len(cloud)
        /\ Range(entries) = { RowToEntry(r) : r \in Range(cloud) }

----------------------------------------------------------------------------
(* Claims on the remote update of an edit *)

\* C28: while signed in, updateEntry(id, patch) on an entry of the list issues
\* exactly one remote update, for that id, whose payload is toDbUpdate of the
\* entry as the list holds it after the patch; also when the component has not
\* re-rendered since the list last changed.
C28_UpdateCarriesLocalFields ==
    [][ (lastOp'.op = "updateEntry" /\ session # NoSession /\ HasEntry(entries, lastOp'.arg[1]))
        => /\ Len(inflight') = Len(inflight) + 1
           /\ SubSeq(inflight', 1, Len(inflight)) = inflight
           /\ inflight'[Len(inflight')].op = "update"
           /\ inflight'[Len(inflight')].id = lastOp'.arg[1]
           /\ inflight'[Len(inflight')].payload = toDbUpdate(FindEntry(entries', lastOp'.arg[1])) ]_vars

====
